---------------------------- MODULE Spec2Model ----------------------------
(***************************************************************************)
(* rdbunit: translation of a line-oriented unit-test script for relational *)
(* queries into an SQL script (src/src/rdbunit/__main__.py).              *)
(*                                                                         *)
(* Lines, tokens and emitted SQL are strings; a character is a string of   *)
(* length one.  Python's None and an unbound local are tagged records.     *)
(***************************************************************************)
EXTENDS Integers, Sequences, FiniteSets, TLC

(***************************************************************************)
(* Characters and Python string primitives                                 *)
(***************************************************************************)
LowerLetters ==
    {"a","b","c","d","e","f","g","h","i","j","k","l","m",
     "n","o","p","q","r","s","t","u","v","w","x","y","z"}

UpperLetters ==
    {"A","B","C","D","E","F","G","H","I","J","K","L","M",
     "N","O","P","Q","R","S","T","U","V","W","X","Y","Z"}

Digits == {"0","1","2","3","4","5","6","7","8","9"}

\* \s of the re module and the whitespace of str.strip / str.split
Whitespace == {" ", "\t", "\n", "\r"}

\* \w of the re module
WordChars == LowerLetters \cup UpperLetters \cup Digits \cup {"_"}

\* [A-Za-z_], the first character of an identifier in RE_DB_TABLESPEC
IdentStart == LowerLetters \cup UpperLetters \cup {"_"}

\* s[i] with 1-based i; "" outside the string, where no pattern matches
Char(s, i) == IF 1 <= i /\ i <= Len(s) THEN SubSeq(s, i, i) ELSE ""

\* str.lower() on one character
LowerChar(c) ==
    CASE c = "A" -> "a" [] c = "B" -> "b" [] c = "C" -> "c" [] c = "D" -> "d"
      [] c = "E" -> "e" [] c = "F" -> "f" [] c = "G" -> "g" [] c = "H" -> "h"
      [] c = "I" -> "i" [] c = "J" -> "j" [] c = "K" -> "k" [] c = "L" -> "l"
      [] c = "M" -> "m" [] c = "N" -> "n" [] c = "O" -> "o" [] c = "P" -> "p"
      [] c = "Q" -> "q" [] c = "R" -> "r" [] c = "S" -> "s" [] c = "T" -> "t"
      [] c = "U" -> "u" [] c = "V" -> "v" [] c = "W" -> "w" [] c = "X" -> "x"
      [] c = "Y" -> "y" [] c = "Z" -> "z" [] OTHER -> c

RECURSIVE Lower(_)
\* str.lower()
Lower(s) == IF s = "" THEN "" ELSE LowerChar(Head(s)) \o Lower(Tail(s))

RECURSIVE Rstrip(_)
\* str.rstrip()
Rstrip(s) ==
    IF s = "" THEN ""
    ELSE IF Char(s, Len(s)) \in Whitespace THEN Rstrip(SubSeq(s, 1, Len(s) - 1))
    ELSE s

RECURSIVE Lstrip(_)
Lstrip(s) ==
    IF s = "" THEN ""
    ELSE IF Head(s) \in Whitespace THEN Lstrip(Tail(s))
    ELSE s

\* str.strip()
Strip(s) == Lstrip(Rstrip(s))

\* s.startswith(p)
StartsWith(s, p) == Len(s) >= Len(p) /\ SubSeq(s, 1, Len(p)) = p

\* s[:n] and s[n:] for a non-negative n (Python slices saturate)
SliceTo(s, n) == IF Len(s) <= n THEN s ELSE SubSeq(s, 1, n)
SliceFrom(s, n) == IF Len(s) <= n THEN "" ELSE SubSeq(s, n + 1, Len(s))

\* p in s
Contains(s, p) ==
    \E i \in 1..(Len(s) - Len(p) + 1) : SubSeq(s, i, i + Len(p) - 1) = p

RECURSIVE Join(_, _)
\* sep.join(seq)
Join(sep, seq) ==
    IF seq = <<>> THEN ""
    ELSE IF Len(seq) = 1 THEN seq[1]
    ELSE seq[1] \o sep \o Join(sep, Tail(seq))

RECURSIVE SplitFrom(_, _, _)
\* the scan of str.split(): cur is the token being read
SplitFrom(s, cur, acc) ==
    IF s = "" THEN (IF cur = "" THEN acc ELSE Append(acc, cur))
    ELSE IF Head(s) \in Whitespace
         THEN SplitFrom(Tail(s), "", IF cur = "" THEN acc ELSE Append(acc, cur))
         ELSE SplitFrom(Tail(s), cur \o Head(s), acc)

\* str.split() with no argument
Split(s) == SplitFrom(s, "", <<>>)

\* min(m, n), the length zip() gives
Min(m, n) == IF m <= n THEN m ELSE n

RECURSIVE ShlexFrom(_, _, _, _, _)
\* the scan of shlex.split(): q is the open quote ("" outside quotes), cur
\* the token being read and open whether a token has been started (a quoted
\* empty string is a token)
ShlexFrom(s, q, cur, open, acc) ==
    IF s = "" THEN (IF open THEN Append(acc, cur) ELSE acc)
    ELSE IF q # ""
         THEN IF Head(s) = q
              THEN ShlexFrom(Tail(s), "", cur, TRUE, acc)
              ELSE ShlexFrom(Tail(s), q, cur \o Head(s), TRUE, acc)
    ELSE IF Head(s) \in Whitespace
         THEN ShlexFrom(Tail(s), "", "", FALSE,
                        IF open THEN Append(acc, cur) ELSE acc)
    ELSE IF Head(s) \in {"'", "\""}
         THEN ShlexFrom(Tail(s), Head(s), cur, TRUE, acc)
    ELSE ShlexFrom(Tail(s), "", cur \o Head(s), TRUE, acc)

\* shlex.split(line): whitespace-separated tokens, quotes removed
ShlexSplit(s) == ShlexFrom(s, "", "", FALSE, <<>>)

(***************************************************************************)
(* Values and their SQL data types                                         *)
(***************************************************************************)
RECURSIVE DigitRun(_, _)
\* the number of consecutive digits of s from position i on: what a greedy
\* \d* consumes
DigitRun(s, i) ==
    IF i <= Len(s) /\ Char(s, i) \in Digits THEN 1 + DigitRun(s, i + 1) ELSE 0

\* \d+$ from position i: digits, at least one, up to the end of s
DigitsToEnd(s, i) == i <= Len(s) /\ DigitRun(s, i) = Len(s) - i + 1

\* RE_INTEGER.match(value)
RE_INTEGER(value) == DigitsToEnd(value, 1)

\* RE_REAL.match(value): the $ binds to the third alternative only, so the
\* first two match a prefix of the value
RE_REAL(value) ==
    LET n == DigitRun(value, 1)
        e == n + 1
        x == IF Char(value, e + 1) = "-" THEN e + 2 ELSE e + 1
    IN  \/ n >= 1 /\ Char(value, n + 1) = "."
        \/ Char(value, n + 1) = "." /\ DigitRun(value, n + 2) >= 1
        \/ n >= 1 /\ Char(value, e) \in {"E", "e"} /\ DigitsToEnd(value, x)

\* \d{4}-\d\d-\d\d at the start of s
DatePrefix(s) ==
    /\ Len(s) >= 10
    /\ \A i \in {1, 2, 3, 4, 6, 7, 9, 10} : Char(s, i) \in Digits
    /\ Char(s, 5) = "-"
    /\ Char(s, 8) = "-"

\* RE_DATE.match(value)
RE_DATE(value) == DatePrefix(value) /\ Len(value) = 10

\* \d+:\d+:\d+$ from position i
TimeFrom(s, i) ==
    LET h == DigitRun(s, i)
        m == DigitRun(s, i + h + 1)
    IN  /\ h >= 1
        /\ Char(s, i + h) = ":"
        /\ m >= 1
        /\ Char(s, i + h + 1 + m) = ":"
        /\ DigitsToEnd(s, i + h + m + 2)

\* RE_TIME.match(value)
RE_TIME(value) == TimeFrom(value, 1)

\* RE_TIMESTAMP.match(value): the pattern has a $ between the date and the
\* blank, which holds only where the value ends
RE_TIMESTAMP(value) ==
    /\ DatePrefix(value)
    /\ Len(value) = 10
    /\ Char(value, 11) = " "
    /\ TimeFrom(value, 12)

\* RE_BOOLEAN.match(value)
RE_BOOLEAN(value) == Lower(value) \in {"true", "false"}

\* boolean_value with no test for null
boolean_value_no_null(database, val) ==
    IF database = "sqlite"
    THEN (IF Lower(val) = "false" THEN "0" ELSE "1")
    ELSE (IF Lower(val) = "false" THEN "FALSE" ELSE "TRUE")

\* Database.boolean_value and DatabaseSQLite.boolean_value
boolean_value(database, val) ==
    IF database = "sqlite"
    THEN (IF Lower(val) = "false" THEN "0"
          ELSE IF Lower(val) = "null" THEN "NULL" ELSE "1")
    ELSE (IF Lower(val) = "false" THEN "FALSE"
          ELSE IF Lower(val) = "null" THEN "NULL" ELSE "TRUE")

quoted_value(val) == IF Lower(val) = "null" THEN "NULL" ELSE "'" \o val \o "'"

unquoted_value(val) == IF Lower(val) = "null" THEN "NULL" ELSE val

\* SqlType.__init__: the type's name and the name of its sql_repr
SqlType(value) ==
    IF RE_INTEGER(value) THEN [name |-> "INTEGER", sql_repr |-> "unquoted"]
    ELSE IF RE_REAL(value) THEN [name |-> "REAL", sql_repr |-> "unquoted"]
    ELSE IF RE_DATE(value) THEN [name |-> "DATE", sql_repr |-> "quoted"]
    ELSE IF RE_TIME(value) THEN [name |-> "TIME", sql_repr |-> "quoted"]
    ELSE IF RE_TIMESTAMP(value)
         THEN [name |-> "TIMESTAMP", sql_repr |-> "quoted"]
    ELSE IF RE_BOOLEAN(value) THEN [name |-> "BOOLEAN", sql_repr |-> "boolean"]
    ELSE [name |-> "VARCHAR(255)", sql_repr |-> "quoted"]

\* SqlType.get_value
get_value(database, t, val) ==
    CASE t.sql_repr = "unquoted" -> unquoted_value(val)
      [] t.sql_repr = "quoted" -> quoted_value(val)
      [] t.sql_repr = "boolean" -> boolean_value(database, val)

(***************************************************************************)
(* Python values that are not strings                                      *)
(***************************************************************************)
\* None
None == [tag |-> "None"]

\* a local variable that no assignment has bound yet
Unbound == [tag |-> "unbound"]

\* a str object
Str(s) == [tag |-> "str", v |-> s]

\* not x, for x a str or None
Falsy(x) == x.tag = "None" \/ (x.tag = "str" /\ x.v = "")

\* no exception pending
NoError == [kind |-> "none", message |-> ""]

\* sys.exit(message)
SystemExit(message) == [kind |-> "SystemExit", message |-> message]

\* raise Exception(message)
RaisedException(message) == [kind |-> "Exception", message |-> message]

\* the read of a local variable that is not bound
UnboundLocalError(name) == [kind |-> "UnboundLocalError", message |-> name]

\* 'INSERT INTO ' + table with table None
TypeError == [kind |-> "TypeError",
              message |-> "can only concatenate str (not NoneType) to str"]

(***************************************************************************)
(* References to databases                                                 *)
(***************************************************************************)
RECURSIVE WordRun(_, _)
\* the number of consecutive \w characters of s from position i on
WordRun(s, i) ==
    IF i <= Len(s) /\ Char(s, i) \in WordChars THEN 1 + WordRun(s, i + 1) ELSE 0

\* RE_DB_TABLESPEC.match(line): ([A-Za-z_]\w*)\.([A-Za-z_]\w*) at the start
\* of the line; group1 is the database
RE_DB_TABLESPEC(line) ==
    LET n == WordRun(line, 1)
        hit == /\ Char(line, 1) \in IdentStart
               /\ Char(line, n + 1) = "."
               /\ Char(line, n + 2) \in IdentStart
    IN  [matched |-> hit, group1 |-> IF hit THEN SubSeq(line, 1, n) ELSE ""]

\* RE_NON_TEST.sub('', x)
RE_NON_TEST_sub(x) == IF StartsWith(x, "test_") THEN SliceFrom(x, 5) ELSE x

\* a \b that holds everywhere: the expression without its \b
WordBoundaryAnywhere(s, i) == TRUE

\* \b before position i of s
WordBoundary(s, i) ==
    (Char(s, i - 1) \in WordChars) # (Char(s, i) \in WordChars)

\* the text of the regular expression make_db_re compiles
database_re(dbs) ==
    IF dbs # <<>>
    THEN "\\b(" \o Join("|", [i \in 1..Len(dbs) |-> RE_NON_TEST_sub(dbs[i])])
         \o ")\\."
    ELSE "(A\\bB)"

\* make_db_re: the compiled expression, as its alternatives in order; with
\* no database it is (A\bB)
make_db_re(dbs) ==
    IF dbs # <<>>
    THEN [alts |-> [i \in 1..Len(dbs) |-> RE_NON_TEST_sub(dbs[i])],
          text |-> database_re(dbs)]
    ELSE [alts |-> <<>>, text |-> database_re(dbs)]

RECURSIVE FirstAlt(_, _, _, _)
\* the first alternative, from the k-th on, with which \b(alts)\. matches
\* at position i of s, ignoring case; 0 if none
FirstAlt(alts, s, i, k) ==
    IF k > Len(alts) THEN 0
    ELSE IF /\ i + Len(alts[k]) <= Len(s)
            /\ Lower(SubSeq(s, i, i + Len(alts[k]) - 1)) = Lower(alts[k])
            /\ Char(s, i + Len(alts[k])) = "."
         THEN k
         ELSE FirstAlt(alts, s, i, k + 1)

\* the length of group 1 of the match of db_re at position i of s, 0 if
\* the expression does not match there
MatchAt(db_re, s, i) ==
    IF db_re.alts = <<>>
    THEN (IF /\ Lower(Char(s, i)) = "a"
             /\ WordBoundary(s, i + 1)
             /\ Lower(Char(s, i + 1)) = "b"
          THEN 2 ELSE 0)
    ELSE IF WordBoundary(s, i) /\ FirstAlt(db_re.alts, s, i, 1) # 0
         THEN Len(db_re.alts[FirstAlt(db_re.alts, s, i, 1)])
         ELSE 0

RECURSIVE SubFrom(_, _, _)
\* the left-to-right scan of db_re.sub from position i
SubFrom(db_re, s, i) ==
    IF i > Len(s) THEN ""
    ELSE LET n == MatchAt(db_re, s, i)
         IN  IF n = 0 THEN Char(s, i) \o SubFrom(db_re, s, i + 1)
             ELSE IF db_re.alts = <<>>
                  THEN "test_" \o SubSeq(s, i, i + n - 1) \o "."
                       \o SubFrom(db_re, s, i + n)
                  ELSE "test_" \o SubSeq(s, i, i + n - 1) \o "."
                       \o SubFrom(db_re, s, i + n + 1)

\* db_re.sub(r'test_\1.', line)
db_re_sub(db_re, line) == SubFrom(db_re, line, 1)

\* the name of the header with no test_ put before the database
test_table_name_as_written(line) == SliceTo(line, Len(line) - 1)

\* test_table_name(line)
test_table_name(line) ==
    IF RE_DB_TABLESPEC(line).matched
    THEN "test_" \o SliceTo(line, Len(line) - 1)
    ELSE SliceTo(line, Len(line) - 1)

(***************************************************************************)
(* The ORDER BY context of a statement (pyparsing grammar)                 *)
(***************************************************************************)
\* identChars of a pyparsing Keyword
KeywordIdentChars == WordChars \cup {"$"}

RECURSIVE SkipWhitespace(_, _)
\* the position of the first character of s, from i on, that pyparsing does
\* not skip before an element
SkipWhitespace(s, i) ==
    IF i <= Len(s) /\ Char(s, i) \in Whitespace
    THEN SkipWhitespace(s, i + 1) ELSE i

\* CaselessKeyword(kw) at position i of s: the word in any case, neither
\* preceded nor followed by an identifier character
CaselessKeyword(s, i, kw) ==
    /\ i + Len(kw) - 1 <= Len(s)
    /\ Lower(SubSeq(s, i, i + Len(kw) - 1)) = Lower(kw)
    /\ Char(s, i + Len(kw)) \notin KeywordIdentChars
    /\ Char(s, i - 1) \notin KeywordIdentChars

\* order_term after position i: Word(alphas + "_", alphanums + "_") and an
\* optional ASC or DESC, ASC by default; next is where the term ends
order_term(s, i) ==
    LET c == SkipWhitespace(s, i)
        n == WordRun(s, c)
        d == SkipWhitespace(s, c + n)
        ok == Char(s, c) \in IdentStart
    IN  IF ~ok THEN [ok |-> FALSE, column |-> "", direction |-> "", next |-> i]
        ELSE IF CaselessKeyword(s, d, "ASC")
             THEN [ok |-> TRUE, column |-> SubSeq(s, c, c + n - 1),
                   direction |-> "ASC", next |-> d + 3]
        ELSE IF CaselessKeyword(s, d, "DESC")
             THEN [ok |-> TRUE, column |-> SubSeq(s, c, c + n - 1),
                   direction |-> "DESC", next |-> d + 4]
        ELSE [ok |-> TRUE, column |-> SubSeq(s, c, c + n - 1),
              direction |-> "ASC", next |-> c + n]

RECURSIVE MoreTerms(_, _, _)
\* ZeroOrMore(Suppress(", ") + order_term) after position i
MoreTerms(s, i, acc) ==
    LET d == SkipWhitespace(s, i)
        t == order_term(s, d + 2)
    IN  IF Char(s, d) = "," /\ Char(s, d + 1) = " " /\ t.ok
        THEN MoreTerms(s, t.next, Append(acc, t))
        ELSE [terms |-> acc, next |-> i]

\* order_by_clause at position i: ORDER BY and a delimited list of terms
order_by_clause(s, i) ==
    LET o == SkipWhitespace(s, i)
        b == SkipWhitespace(s, o + 5)
        t == order_term(s, b + 2)
        ok == /\ CaselessKeyword(s, o, "ORDER")
              /\ CaselessKeyword(s, b, "BY")
              /\ t.ok
    IN  IF ok
        THEN [ok |-> TRUE, terms |-> MoreTerms(s, t.next, <<t>>).terms,
              next |-> MoreTerms(s, t.next, <<t>>).next]
        ELSE [ok |-> FALSE, terms |-> <<>>, next |-> i]

RECURSIVE searchString(_, _, _)
\* order_by_clause.searchString(sql_text): the matches found scanning from
\* position i
searchString(s, i, acc) ==
    IF i > Len(s) THEN acc
    ELSE LET m == order_by_clause(s, i)
         IN  IF m.ok /\ m.next > i
             THEN searchString(s, m.next, Append(acc, m.terms))
             ELSE searchString(s, SkipWhitespace(s, i) + 1, acc)

RECURSIVE TermsText(_)
\* the f" {column} {direction}," of every term of one clause
TermsText(terms) ==
    IF terms = <<>> THEN ""
    ELSE " " \o terms[1].column \o " " \o terms[1].direction \o ","
         \o TermsText(Tail(terms))

RECURSIVE OrderByCommand(_, _, _)
\* the loop over enumerate(results, start=1): the terms are appended for the
\* last clause only, the last character is cut after every clause
OrderByCommand(results, idx, order_by_command) ==
    IF idx > Len(results) THEN order_by_command
    ELSE LET appended == IF idx = Len(results)
                         THEN order_by_command \o TermsText(results[idx])
                         ELSE order_by_command
         IN  OrderByCommand(results, idx + 1,
                            SliceTo(appended, Len(appended) - 1))

\* extract_order_by_clauses(sql_text)
extract_order_by_clauses(sql_text) ==
    OrderByCommand(searchString(sql_text, 1, <<>>), 1, "ORDER BY")

(***************************************************************************)
(* Standard output: one record for every print call                        *)
(***************************************************************************)
\* a printed text of the given kind; name is the table or database it is
\* about, items its columns or values, number the number of the test case
Emit(kind, text, name, items, number) ==
    [kind |-> kind, text |-> text, name |-> name, items |-> items,
     number |-> number]

\* a printed text that is about no table
Line(kind, text) == Emit(kind, text, "", <<>>, 0)

(***************************************************************************)
(* Database engines                                                        *)
(***************************************************************************)
\* the values of --database that create_test_cases accepts
Engines == {"mysql", "postgresql", "sqlite"}

\* str(dbengine) of the engine object create_test_cases makes
EngineClass(database) ==
    CASE database = "mysql" -> "DatabaseMySQL"
      [] database = "postgresql" -> "DatabasePostgreSQL"
      [] database = "sqlite" -> "DatabaseSQLite"

\* dbengine.initialize()
initialize(database) ==
    IF database = "postgresql"
    THEN <<Line("init",
               "\\set ON_ERROR_STOP true\nSET client_min_messages='ERROR';")>>
    ELSE <<>>

\* dbengine.drop(name)
drop(database, name) ==
    CASE database = "mysql" ->
           <<Emit("drop_db", "DROP DATABASE IF EXISTS " \o name \o ";",
                  name, <<>>, 0)>>
      [] database = "postgresql" ->
           <<Emit("drop_db", "DROP SCHEMA IF EXISTS " \o name \o " CASCADE;",
                  name, <<>>, 0)>>
      [] database = "sqlite" -> <<>>

\* dbengine.create_db(name)
create_db(database, name) ==
    CASE database = "mysql" ->
           <<Emit("create_db", "CREATE DATABASE " \o name \o ";",
                  name, <<>>, 0)>>
      [] database = "postgresql" ->
           <<Emit("create_db", "CREATE SCHEMA " \o name \o ";",
                  name, <<>>, 0)>>
      [] database = "sqlite" ->
           <<Emit("create_db",
                  "ATTACH DATABASE \":memory:\" AS " \o name \o ";",
                  name, <<>>, 0)>>

\* dbengine.create_view(name)
create_view(database, name) ==
    IF database = "sqlite"
    THEN <<Emit("create_view", "CREATE TEMP VIEW " \o name \o " AS",
                name, <<>>, 0)>>
    ELSE <<Emit("create_view", "CREATE VIEW " \o name \o " AS",
                name, <<>>, 0)>>

\* dbengine.use(name)
use(database, name) ==
    CASE database = "mysql" ->
           <<Emit("use", "USE " \o name \o ";", name, <<>>, 0)>>
      [] database = "postgresql" ->
           <<Emit("use", "SET search_path TO " \o name \o ";", name, <<>>, 0)>>
      [] database = "sqlite" -> <<>>

\* name in created_databases
InList(name, list) == \E i \in 1..Len(list) : list[i] = name

\* create_database(dbengine, created_databases, name): what it prints and
\* the list it leaves
create_database(database, created, name) ==
    IF InList(name, created)
    THEN [out |-> <<>>, created |-> created]
    ELSE [out |-> drop(database, name) \o create_db(database, name),
          created |-> IF name # "default" THEN Append(created, name)
                      ELSE created]

RECURSIVE create_databases(_, _, _)
\* create_databases(dbengine, test_spec, created_databases): a database for
\* every line that starts with a table reference
create_databases(database, lines, created) ==
    IF lines = <<>> THEN [out |-> <<>>, created |-> created]
    ELSE LET m == RE_DB_TABLESPEC(lines[1])
             c == IF m.matched
                  THEN create_database(database, created,
                                       "test_" \o m.group1)
                  ELSE [out |-> <<>>, created |-> created]
             rest == create_databases(database, Tail(lines), c.created)
         IN  [out |-> c.out \o rest.out, created |-> rest.created]

(***************************************************************************)
(* Tables                                                                  *)
(***************************************************************************)
\* [n + ' ' + t.get_name() for n, t in zip(column_names, types)]
ColumnDefs(column_names, types) ==
    [i \in 1..Min(Len(column_names), Len(types)) |->
        column_names[i] \o " " \o types[i].name]

\* the message of the exception create_table raises in ordered mode
NotSupported(database) ==
    "BEGIN ORDERED RESULT not supported for " \o EngineClass(database)

\* create_table with no engine refused in ordered mode
create_table_any_engine(database, tname, cols, values, flag) ==
    LET types == [i \in 1..Len(ShlexSplit(values)) |->
                     SqlType(ShlexSplit(values)[i])]
        defs == ColumnDefs(cols, types)
    IN  [out |-> <<Emit("drop_table",
                        "DROP TABLE IF EXISTS " \o tname \o ";",
                        tname, <<>>, 0),
                   Emit("create_table",
                        "CREATE TABLE " \o tname \o " ("
                        \o Join(", ", defs) \o ");",
                        tname, defs, 0)>>,
         types |-> types, error |-> NoError]

\* create_table(dbengine, table_name, column_names, values, flag_order):
\* what it prints, the types it returns and the exception it raises
create_table(database, tname, column_names, values, flag) ==
    LET types == [i \in 1..Len(ShlexSplit(values)) |->
                     SqlType(ShlexSplit(values)[i])]
        defs == ColumnDefs(column_names, types)
        dropped == <<Emit("drop_table",
                          "DROP TABLE IF EXISTS " \o tname \o ";",
                          tname, <<>>, 0)>>
        plain == <<Emit("create_table",
                        "CREATE TABLE " \o tname \o " ("
                        \o Join(", ", defs) \o ");",
                        tname, defs, 0)>>
        ranked == <<Line("comment",
                         "--Auto increment internal column for DatabaseSQLite"),
                    Emit("create_table",
                         "CREATE TABLE " \o tname \o " ("
                         \o "rn INTEGER PRIMARY KEY AUTOINCREMENT, "
                         \o Join(", ", defs) \o ");",
                         tname,
                         <<"rn INTEGER PRIMARY KEY AUTOINCREMENT">> \o defs,
                         0)>>
    IN  IF flag = 1
        THEN [out |-> dropped \o plain, types |-> types, error |-> NoError]
        ELSE IF tname # "test_expected"
        THEN [out |-> dropped \o plain, types |-> types, error |-> NoError]
        ELSE IF database \in {"mysql", "postgresql"}
        THEN [out |-> dropped, types |-> types,
              error |-> RaisedException(NotSupported(database))]
        ELSE [out |-> dropped \o ranked, types |-> types, error |-> NoError]

\* insert_values(table, types, line, dbengine, flag_order): the INSERT it
\* prints; table is a str here
insert_values(database, table, types, line, flag) ==
    LET values == ShlexSplit(line)
        quoted == [i \in 1..Min(Len(values), Len(types)) |->
                      get_value(database, types[i], values[i])]
        quoted_list == Join(", ", quoted)
    IN  IF flag = -1 /\ database = "sqlite" /\ table = "test_expected"
        THEN <<Emit("insert",
                    "INSERT INTO " \o table \o " VALUES (" \o "NULL,"
                    \o quoted_list \o ");",
                    table, <<"NULL">> \o quoted, 0)>>
        ELSE <<Emit("insert",
                    "INSERT INTO " \o table \o " VALUES (" \o quoted_list
                    \o ");",
                    table, quoted, 0)>>

(***************************************************************************)
(* The verdict                                                             *)
(***************************************************************************)
\* the statement verify_content prints for the verdict
VerdictText(number, test_name, case_name) ==
    "\n        SELECT CASE WHEN\n"
    \o "          (SELECT COUNT(*) FROM (\n"
    \o "            SELECT * FROM test_expected\n"
    \o "            UNION\n"
    \o "            SELECT * FROM " \o case_name \o "\n"
    \o "          ) AS u1) = (SELECT COUNT(*) FROM test_expected) AND\n"
    \o "          (SELECT COUNT(*) FROM (\n"
    \o "            SELECT * FROM test_expected\n"
    \o "            UNION\n"
    \o "            SELECT * FROM " \o case_name \o "\n"
    \o "          ) AS u2) = (SELECT COUNT(*) FROM " \o case_name \o ")\n"
    \o "THEN 'ok " \o ToString(number) \o " - " \o test_name \o ": "
    \o case_name \o "' ELSE\n'not ok " \o ToString(number) \o " - "
    \o test_name \o ": " \o case_name \o "' END;\n"

\* the verdict printed with the number of the first test case, whatever
\* the test counter holds
verify_content_first_number(a, number, test_name, case_name) ==
    <<Emit("verdict", VerdictText(1, test_name, case_name),
           case_name, <<>>, 1)>>

\* verify_content(args, number, test_name, case_name)
verify_content(a, number, test_name, case_name) ==
    <<Emit("verdict", VerdictText(number, test_name, case_name),
           case_name, <<>>, number)>>
    \o (IF a.results
        THEN <<Line("show", "SELECT 'Result set:';"),
               Line("show", "SELECT * FROM " \o case_name \o ";")>>
        ELSE <<>>)
    \o (IF a.compare
        THEN <<Line("show", "SELECT 'Non expected records in result set:';"),
               Line("show", "SELECT * FROM " \o case_name
                            \o " EXCEPT SELECT * FROM test_expected;"),
               Line("show", "SELECT 'Missing records in result set:';"),
               Line("show", "SELECT * FROM test_expected EXCEPT SELECT * FROM "
                            \o case_name \o ";")>>
        ELSE <<>>)

(***************************************************************************)
(* Included SQL files                                                      *)
(***************************************************************************)
RECURSIVE WhitespaceRun(_, _)
\* the number of consecutive \s characters of s from position i on
WhitespaceRun(s, i) ==
    IF i <= Len(s) /\ Char(s, i) \in Whitespace
    THEN 1 + WhitespaceRun(s, i + 1) ELSE 0

\* word in any case at position i of s
CaselessAt(s, i, word) ==
    /\ i + Len(word) - 1 <= Len(s)
    /\ Lower(SubSeq(s, i, i + Len(word) - 1)) = Lower(word)

RECURSIVE FirstSemicolon(_, _)
\* the position of the first ; of s from position i on, 0 if there is none
FirstSemicolon(s, i) ==
    IF i > Len(s) THEN 0
    ELSE IF Char(s, i) = ";" THEN i
    ELSE FirstSemicolon(s, i + 1)

\* the position after CREATE\s+INDEX matched at position i of s, 0 if it
\* does not match there
CreateIndexAt(s, i) ==
    LET w == WhitespaceRun(s, i + 6)
    IN  IF CaselessAt(s, i, "CREATE") /\ w >= 1
           /\ CaselessAt(s, i + 6 + w, "INDEX")
        THEN i + 6 + w + 5 ELSE 0

\* the position of the ; that ends \s+[^;]+; matched at position p, 0 if it
\* does not match there
ToSemicolon(s, p) ==
    LET q == FirstSemicolon(s, p)
    IN  IF p >= 1 /\ Char(s, p) \in Whitespace /\ q >= p + 2 THEN q ELSE 0

\* the position of the ; that ends RE_FULL_CREATE_INDEX at position i
FullCreateIndexAt(s, i) ==
    IF CreateIndexAt(s, i) = 0 THEN 0 ELSE ToSemicolon(s, CreateIndexAt(s, i))

\* the position of the ; that ends RE_FULL_ATTACH_DATABASE at position i
FullAttachAt(s, i) ==
    IF CaselessAt(s, i, "ATTACH") THEN ToSemicolon(s, i + 6) ELSE 0

RECURSIVE RemoveCreateIndex(_, _)
\* re.sub(RE_FULL_CREATE_INDEX, '', line) from position i
RemoveCreateIndex(s, i) ==
    IF i > Len(s) THEN ""
    ELSE IF FullCreateIndexAt(s, i) # 0
         THEN RemoveCreateIndex(s, FullCreateIndexAt(s, i) + 1)
         ELSE Char(s, i) \o RemoveCreateIndex(s, i + 1)

RECURSIVE RemoveAttach(_, _)
\* re.sub(RE_FULL_ATTACH_DATABASE, '', line) from position i
RemoveAttach(s, i) ==
    IF i > Len(s) THEN ""
    ELSE IF FullAttachAt(s, i) # 0
         THEN RemoveAttach(s, FullAttachAt(s, i) + 1)
         ELSE Char(s, i) \o RemoveAttach(s, i + 1)

RECURSIVE PartialCreateIndex(_, _)
\* RE_PARTIAL_CREATE_INDEX.search(line) from position i: where a CREATE
\* INDEX with no ; up to the end of the line starts, 0 if nowhere
PartialCreateIndex(s, i) ==
    IF i > Len(s) THEN 0
    ELSE IF /\ CreateIndexAt(s, i) # 0
            /\ Char(s, CreateIndexAt(s, i)) \notin WordChars
            /\ FirstSemicolon(s, CreateIndexAt(s, i)) = 0
         THEN i
         ELSE PartialCreateIndex(s, i + 1)

RECURSIVE SkipToSemicolon(_)
\* the inner loop of process_sql: the lines of the file from the first one
\* with a ; on, none if no line has one
SkipToSemicolon(lines) ==
    IF lines = <<>> THEN <<>>
    ELSE IF FirstSemicolon(lines[1], 1) = 0 THEN SkipToSemicolon(Tail(lines))
    ELSE lines

RECURSIVE process_sql_lines(_, _)
\* the loop of process_sql over the lines of the file, which end with \n
process_sql_lines(lines, db_re) ==
    IF lines = <<>> THEN <<>>
    ELSE LET line == RemoveAttach(RemoveCreateIndex(Rstrip(lines[1]), 1), 1)
             p == PartialCreateIndex(line, 1)
             rest == SkipToSemicolon(Tail(lines))
             last_line == IF rest = <<>> THEN "" ELSE rest[1]
             joined == SliceTo(line, p - 1)
                       \o SliceFrom(last_line, FirstSemicolon(last_line, 1))
         IN  IF p = 0
             THEN <<Line("included", db_re_sub(db_re, line))>>
                  \o process_sql_lines(Tail(lines), db_re)
             ELSE <<Line("included", db_re_sub(db_re, joined))>>
                  \o process_sql_lines(IF rest = <<>> THEN <<>>
                                       ELSE Tail(rest), db_re)

\* the files INCLUDE can name, each with its lines
Files ==
    [name \in {"q.sql", "c.sql"} |->
        IF name = "q.sql"
        THEN <<"SELECT a FROM db.t ORDER BY a;\n">>
        ELSE <<"ATTACH DATABASE 'x' AS db; CREATE INDEX i\n",
               "  ON t(a);\n",
               "CREATE TABLE r AS SELECT a FROM db.t;\n">>]

\* RE_INCLUDE_SELECT.match(line) and RE_INCLUDE_CREATE.match(line) with
\* which == "SELECT" or "CREATE": INCLUDE\s+<which>\s+(.*)$, group1 the file
RE_INCLUDE(which, line) ==
    LET w1 == WhitespaceRun(line, 8)
        w2 == WhitespaceRun(line, 8 + w1 + 6)
        hit == /\ StartsWith(line, "INCLUDE")
               /\ w1 >= 1
               /\ SubSeq(line, 8 + w1, 8 + w1 + 5) = which
               /\ w2 >= 1
    IN  [matched |-> hit,
         group1 |-> IF hit THEN SliceFrom(line, 8 + w1 + 6 + w2 - 1) ELSE ""]

\* open(file_name) of a file that does not exist
FileNotFoundError(file_name) ==
    [kind |-> "FileNotFoundError", message |-> file_name]

(***************************************************************************)
(* Embedded SQL in ordered mode                                            *)
(***************************************************************************)
\* what state sql prints for a line once its databases are substituted
SqlLine(line, flag) ==
    IF flag = 1 THEN line
    ELSE IF Contains(line, "ORDER BY")
    THEN SliceTo(line, 6) \o " ROW_NUMBER() " \o "OVER("
         \o extract_order_by_clauses(line) \o ") AS RN," \o SliceFrom(line, 6)
    ELSE SliceTo(line, 6) \o " ROW_NUMBER() OVER(ORDER BY 1) AS RN,"
         \o SliceFrom(line, 6)

(***************************************************************************)
(* The run of one script: create_test_cases and process_test               *)
(***************************************************************************)
VARIABLES
    args,                 \* the parsed command line
    test_spec,            \* the lines of the script, as file_to_list reads them
    pc,                   \* where the run is
    state,                \* process_test: the state of the line automaton
    test_number,
    created_databases,
    table_created,
    column_names,
    flag_order,           \* -1 in ordered mode, 1 otherwise, None before
    db_re,
    line_number,
    table_name,
    prev_state,
    test_statement_type,
    types,
    out,                  \* standard output so far
    err,                  \* the exception that ended the run
    declared,             \* history: the table names declared since the
                          \* last line of state initial, by name lines or
                          \* by the RESULT of a SELECT
    declaration,          \* history: whether a column line has been read
                          \* since the last name line or END of states
                          \* setup and result, and the data rows read since
    call,                 \* a function called on its own, with its arguments
    ret                   \* what that call returned, None before it returns

vars == <<args, test_spec, pc, state, test_number, created_databases,
          table_created, column_names, flag_order, db_re, line_number,
          table_name, prev_state, test_statement_type, types, out, err,
          declared, declaration, call, ret>>

\* the name of the script, which create_test_cases gets as test_name
test_name == "t.rdbu"

\* the most fragments a script is made of
MaxFragments == 2

\* the pieces scripts are made of: whole blocks, whole test cases and
\* single lines
Fragments ==
    << <<"BEGIN SETUP", "t:", "a b", "1 x", "2", "END">>,
       <<"BEGIN SETUP", "db.t:", "a", "1", "END">>,
       <<"BEGIN SETUP", "test_expected:", "a", "1", "END">>,
       <<"BEGIN SETUP", "2", "END">>,
       <<"BEGIN SETUP">>,
       <<"BEGIN CREATE", "CREATE TABLE r AS SELECT a FROM db.t;", "END">>,
       <<"BEGIN SELECT", "SELECT a FROM t ORDER BY a;", "END">>,
       <<"INCLUDE SELECT q.sql">>,
       <<"INCLUDE CREATE c.sql">>,
       <<"INCLUDE CREATE missing.sql">>,
       <<"BEGIN RESULT", "r:", "a b", "1 x", "END">>,
       <<"BEGIN RESULT", "a", "1", "END">>,
       <<"BEGIN RESULT", "END">>,
       <<"BEGIN ORDERED RESULT", "a", "1", "END">>,
       <<"BEGIN CREATE", "CREATE TABLE r AS SELECT 1 AS a;", "END",
         "BEGIN RESULT", "r:", "a", "1", "END">>,
       <<"BEGIN CREATE", "CREATE TABLE s AS SELECT a FROM myDB.t, DB.t;",
         "END", "BEGIN RESULT", "db.s:", "a", "END">>,
       <<"BEGIN SELECT", "SELECT a", "FROM t", "END",
         "BEGIN RESULT", "a", "1", "END">>,
       <<"  ", "# comment">>,
       <<"bogus">> >>

RECURSIVE Flatten(_, _)
\* the lines of the fragments picked by the indices ix, each ended by \n
Flatten(ix, k) ==
    IF k > Len(ix) THEN <<>>
    ELSE [i \in 1..Len(Fragments[ix[k]]) |-> Fragments[ix[k]][i] \o "\n"]
         \o Flatten(ix, k + 1)

\* the scripts of at most MaxFragments fragments
Scripts ==
    {Flatten(ix, 1) :
        ix \in UNION {[1..k -> 1..Len(Fragments)] : k \in 0..MaxFragments}}

\* the command lines: every engine and one that is not supported with no
\* flag given, and one engine with every flag given
ArgsPool ==
    {[database |-> d, existing_database |-> FALSE, results |-> FALSE,
      compare |-> FALSE] : d \in Engines \cup {"oracle"}}
    \cup {[database |-> "sqlite", existing_database |-> TRUE,
            results |-> TRUE, compare |-> TRUE]}

\* the locals of process_test as it starts, before any script is read
Init ==
    /\ args \in ArgsPool
    /\ test_spec \in Scripts
    /\ pc = "create_test_cases"
    /\ state = "initial"
    /\ test_number = 1
    /\ created_databases = <<>>
    /\ table_created = FALSE
    /\ column_names = <<>>
    /\ flag_order = None
    /\ db_re = make_db_re(<<>>)
    /\ line_number = 0
    /\ table_name = Unbound
    /\ prev_state = Unbound
    /\ test_statement_type = Unbound
    /\ types = <<>>
    /\ out = <<>>
    /\ err = NoError
    /\ declared = <<>>
    /\ declaration = [open |-> FALSE, rows |-> <<>>]
    /\ call = None
    /\ ret = None

\* the locals of process_test no statement before the loop assigns, and
\* what no statement of the run assigns
Locals == <<state, test_number, table_created, column_names, line_number,
            table_name, prev_state, test_statement_type, types, declared,
            declaration, call, ret>>

\* create_test_cases up to its call of process_test; ROLAPDB is not set in
\* the environment, so the database is test_default
create_test_cases ==
    /\ pc = "create_test_cases"
    /\ IF args.database \notin Engines
       THEN /\ out' = <<Line("comment", "-- Input from " \o test_name)>>
            /\ err' = SystemExit("Unsupported database: " \o args.database)
            /\ pc' = "halted"
       ELSE /\ out' = <<Line("comment", "-- Input from " \o test_name)>>
                      \o initialize(args.database)
                      \o (IF ~args.existing_database
                          THEN create_database(args.database, <<>>,
                                               "test_default").out
                               \o use(args.database, "test_default")
                          ELSE <<>>)
            /\ err' = err
            /\ pc' = "process_test"
    /\ UNCHANGED <<args, test_spec, created_databases, flag_order, db_re>>
    /\ UNCHANGED Locals

\* the scan over the lines as they were read, with their line ends
HasOrderedResultUnstripped(lines) ==
    \E i \in 1..Len(lines) : lines[i] = "BEGIN ORDERED RESULT"

\* 'BEGIN ORDERED RESULT' in [s.strip() for s in test_spec if s.strip()]
HasOrderedResult(lines) ==
    \E i \in 1..Len(lines) : Strip(lines[i]) = "BEGIN ORDERED RESULT"

\* process_test from its first statement up to the loop over the lines
process_test_begin ==
    /\ pc = "process_test"
    /\ flag_order' = IF HasOrderedResult(test_spec) THEN -1 ELSE 1
    /\ created_databases' =
           create_databases(args.database, test_spec, <<>>).created
    /\ db_re' = make_db_re(created_databases')
    /\ out' = out \o create_databases(args.database, test_spec, <<>>).out
              \o (IF created_databases' # <<>>
                  THEN <<Line("comment",
                              "-- Database RE: " \o db_re'.text)>>
                  ELSE <<>>)
    /\ pc' = "loop"
    /\ UNCHANGED <<args, test_spec, err>>
    /\ UNCHANGED Locals

(***************************************************************************)
(* The loop over the lines                                                 *)
(***************************************************************************)
\* the line the loop is at, after line.rstrip()
CurLine == Rstrip(test_spec[line_number + 1])

\* the loop has a line to process
AtLine == pc = "loop" /\ line_number < Len(test_spec)

\* line == '', the comments not skipped
SkippedBlank(line) == line = ""

\* line == '' or line[0] == '#'
Skipped(line) == IF line = "" THEN TRUE ELSE Head(line) = "#"

\* what one iteration can change, as the iteration finds it (line_number is
\* already incremented)
Cur ==
    [state |-> state, test_number |-> test_number,
     table_created |-> table_created, column_names |-> column_names,
     line_number |-> line_number + 1, table_name |-> table_name,
     prev_state |-> prev_state, test_statement_type |-> test_statement_type,
     types |-> types, out |-> out, err |-> NoError]

\* the iteration ends as the record n says; an exception ends the run
Iterate(n) ==
    /\ state' = n.state
    /\ test_number' = n.test_number
    /\ table_created' = n.table_created
    /\ column_names' = n.column_names
    /\ line_number' = n.line_number
    /\ table_name' = n.table_name
    /\ prev_state' = n.prev_state
    /\ test_statement_type' = n.test_statement_type
    /\ types' = n.types
    /\ out' = n.out
    /\ err' = n.err
    /\ pc' = IF n.err.kind = "none" THEN "loop" ELSE "halted"
    /\ declared' = IF state = "initial"
                   THEN (IF /\ CurLine \in {"BEGIN RESULT",
                                            "BEGIN ORDERED RESULT"}
                            /\ test_statement_type = Str("select")
                         THEN <<"test_select_result">> ELSE <<>>)
                   ELSE IF /\ state \in {"setup", "result"}
                           /\ CurLine # "END"
                           /\ Char(CurLine, Len(CurLine)) = ":"
                   THEN Append(declared, test_table_name(CurLine))
                   ELSE declared
    /\ declaration' =
           IF state = "table_columns" THEN [open |-> TRUE, rows |-> <<>>]
           ELSE IF state \notin {"setup", "result"} THEN declaration
           ELSE IF CurLine = "END" \/ Char(CurLine, Len(CurLine)) = ":"
           THEN [open |-> FALSE, rows |-> <<>>]
           ELSE IF declaration.open /\ n.err.kind = "none"
           THEN [declaration EXCEPT !.rows = Append(@, CurLine)]
           ELSE declaration
    /\ UNCHANGED <<args, test_spec, created_databases, flag_order, db_re,
                   call, ret>>

\* syntax_error(line_number, state, reason)
syntax_error(number, st, reason) ==
    SystemExit("Syntax error on line " \o ToString(number) \o ": " \o reason
               \o " (state: " \o st \o ")")

\* the reason of the error for data with no table
NoTableName == "Attempt to provide data without specifying a table name"

\* the body of process_sql(file_name, make_db_re(created_databases)): the
\* expression is printed first, then the file is opened
process_sql(c, file_name) ==
    LET re == make_db_re(created_databases)
        shown == IF created_databases # <<>>
                 THEN Append(c.out, Line("comment",
                                         "-- Database RE: " \o re.text))
                 ELSE c.out
    IN  IF file_name \in DOMAIN Files
        THEN [c EXCEPT !.out = shown \o process_sql_lines(Files[file_name], re)]
        ELSE [c EXCEPT !.out = shown, !.err = FileNotFoundError(file_name)]

\* BEGIN RESULT of a SELECT recording setup as the state to return to
InitialResultReturnsToSetup(c) ==
    IF test_statement_type = Unbound
    THEN [c EXCEPT !.err = UnboundLocalError("test_statement_type")]
    ELSE IF test_statement_type = Str("select")
    THEN [c EXCEPT !.table_name = Str("test_select_result"),
                   !.state = "table_columns",
                   !.prev_state = Str("setup"),
                   !.test_statement_type = None]
    ELSE IF test_statement_type = Str("create")
    THEN [c EXCEPT !.state = "result", !.test_statement_type = None]
    ELSE [c EXCEPT !.err = syntax_error(c.line_number, state,
                                        "CREATE or SELECT not specified")]

\* state initial, BEGIN RESULT and BEGIN ORDERED RESULT
InitialResult(c) ==
    IF test_statement_type = Unbound
    THEN [c EXCEPT !.err = UnboundLocalError("test_statement_type")]
    ELSE IF test_statement_type = Str("select")
    THEN [c EXCEPT !.table_name = Str("test_select_result"),
                   !.state = "table_columns",
                   !.prev_state = Str("result"),
                   !.test_statement_type = None]
    ELSE IF test_statement_type = Str("create")
    THEN [c EXCEPT !.state = "result", !.test_statement_type = None]
    ELSE [c EXCEPT !.err = syntax_error(c.line_number, state,
                                        "CREATE or SELECT not specified")]

\* state initial
InitialLine(line) ==
    LET c == [Cur EXCEPT !.out = Append(out, Line("comment",
                                                  "\n-- " \o line))]
    IN  IF line = "BEGIN SETUP"
        THEN [c EXCEPT !.state = "setup", !.table_name = None]
        ELSE IF line = "BEGIN CREATE"
        THEN [c EXCEPT !.test_statement_type = Str("create"), !.state = "sql"]
        ELSE IF line = "BEGIN SELECT"
        THEN [c EXCEPT !.out = Append(c.out,
                                      Emit("create_view",
                                           "CREATE VIEW test_select_result AS",
                                           "test_select_result", <<>>, 0)),
                       !.test_statement_type = Str("select"),
                       !.state = "sql"]
        ELSE IF RE_INCLUDE("SELECT", line).matched
        THEN LET v == [c EXCEPT !.out = c.out
                                  \o create_view(args.database,
                                                 "test_select_result")]
                 r == process_sql(v, RE_INCLUDE("SELECT", line).group1)
             IN  IF r.err.kind # "none" THEN r
                 ELSE [r EXCEPT !.test_statement_type = Str("select")]
        ELSE IF RE_INCLUDE("CREATE", line).matched
        THEN LET r == process_sql(c, RE_INCLUDE("CREATE", line).group1)
             IN  IF r.err.kind # "none" THEN r
                 ELSE [r EXCEPT !.test_statement_type = Str("create")]
        ELSE IF line \in {"BEGIN RESULT", "BEGIN ORDERED RESULT"}
        THEN InitialResult(c)
        ELSE [c EXCEPT !.err = syntax_error(c.line_number, state,
                                            "Unknown statement: " \o line)]

\* the data row of states setup and result: the table is created for the
\* first row, the row is inserted; table is the table_name argument
DataLine(c, table, line) ==
    LET ct == create_table(args.database, table.v, column_names, line,
                           flag_order)
        made == IF table_created THEN c
                ELSE [c EXCEPT !.out = c.out \o ct.out, !.types = ct.types,
                               !.table_created = TRUE, !.err = ct.error]
    IN  IF made.err.kind # "none"
        THEN [c EXCEPT !.out = made.out, !.err = made.err]
        ELSE IF table.tag # "str"
        THEN [made EXCEPT !.err = TypeError]
        ELSE [made EXCEPT !.out = made.out
                                  \o insert_values(args.database, table.v,
                                                   made.types, line,
                                                   flag_order)]

\* state setup
SetupLine(line) ==
    IF line = "END"
    THEN [Cur EXCEPT !.state = "initial", !.table_name = None]
    ELSE IF Char(line, Len(line)) = ":"
    THEN [Cur EXCEPT !.table_name = Str(test_table_name(line)),
                     !.state = "table_columns",
                     !.prev_state = Str("setup")]
    ELSE IF ~table_created /\ Falsy(table_name)
    THEN [Cur EXCEPT !.err = syntax_error(Cur.line_number, state,
                                          NoTableName)]
    ELSE DataLine(Cur, table_name, line)

\* state sql
SqlStateLine(line) ==
    IF line = "END"
    THEN [Cur EXCEPT !.state = "initial"]
    ELSE [Cur EXCEPT !.out = Append(out,
                                    Line("sql",
                                         SqlLine(db_re_sub(db_re, line),
                                                 flag_order)))]

\* state table_columns with table_created left as it is
TableColumnsLineNoReset(line) ==
    [Cur EXCEPT !.column_names = Split(line),
                !.state = prev_state.v]

\* state table_columns
TableColumnsLine(line) ==
    [Cur EXCEPT !.column_names = Split(line),
                !.state = prev_state.v,
                !.table_created = FALSE]

\* state result, END, with the test counter left as it is
ResultEndSameNumber(c) ==
    IF Falsy(table_name) \/ table_name = Unbound
    THEN [c EXCEPT !.err = syntax_error(c.line_number, state, NoTableName)]
    ELSE [c EXCEPT !.out = c.out \o verify_content(args, test_number,
                                                   test_name, table_name.v),
                   !.state = "initial"]

\* state result, END
ResultEnd(c) ==
    LET ct == create_table(args.database, "test_expected", column_names,
                           Join(" ", column_names), flag_order)
        made == IF table_created THEN c
                ELSE [c EXCEPT !.out = c.out \o ct.out, !.types = ct.types,
                               !.table_created = TRUE, !.err = ct.error]
    IN  IF table_name = Unbound
        THEN [c EXCEPT !.err = UnboundLocalError("table_name")]
        ELSE IF Falsy(table_name)
        THEN [c EXCEPT !.err = syntax_error(c.line_number, state,
                                            NoTableName)]
        ELSE IF made.err.kind # "none"
        THEN [c EXCEPT !.out = made.out, !.err = made.err]
        ELSE [made EXCEPT !.out = made.out
                                  \o verify_content(args, test_number,
                                                    test_name, table_name.v),
                          !.test_number = test_number + 1,
                          !.state = "initial"]

\* state result
ResultLine(line) ==
    IF line = "END"
    THEN ResultEnd(Cur)
    ELSE IF Char(line, Len(line)) = ":"
    THEN [Cur EXCEPT !.table_name = Str(test_table_name(line)),
                     !.state = "table_columns",
                     !.prev_state = Str("result")]
    ELSE DataLine(Cur, Str("test_expected"), line)

\* a blank line or a comment: continue
SkipLine ==
    /\ AtLine
    /\ Skipped(CurLine)
    /\ line_number' = line_number + 1
    /\ UNCHANGED <<args, test_spec, pc, state, test_number,
                   created_databases, table_created, column_names,
                   flag_order, db_re, table_name, prev_state,
                   test_statement_type, types, out, err, declared,
                   declaration, call, ret>>

StateInitial ==
    /\ AtLine /\ ~Skipped(CurLine) /\ state = "initial"
    /\ Iterate(InitialLine(CurLine))

StateSetup ==
    /\ AtLine /\ ~Skipped(CurLine) /\ state = "setup"
    /\ Iterate(SetupLine(CurLine))

StateSql ==
    /\ AtLine /\ ~Skipped(CurLine) /\ state = "sql"
    /\ Iterate(SqlStateLine(CurLine))

StateTableColumns ==
    /\ AtLine /\ ~Skipped(CurLine) /\ state = "table_columns"
    /\ Iterate(TableColumnsLine(CurLine))

StateResult ==
    /\ AtLine /\ ~Skipped(CurLine) /\ state = "result"
    /\ Iterate(ResultLine(CurLine))

\* the text of the line that closes the output
CountLine(n) == "SELECT '1.." \o ToString(n) \o "';"

\* after the loop, with no look at the state
EndOfScriptUnchecked ==
    /\ pc = "loop"
    /\ line_number = Len(test_spec)
    /\ out' = Append(out, Emit("count", CountLine(test_number - 1),
                               "", <<>>, test_number - 1))
    /\ pc' = "done"
    /\ err' = err
    /\ UNCHANGED <<args, test_spec, created_databases, flag_order, db_re>>
    /\ UNCHANGED Locals

\* after the loop: the script must end in state initial
EndOfScript ==
    /\ pc = "loop"
    /\ line_number = Len(test_spec)
    /\ IF state # "initial"
       THEN /\ err' = SystemExit("Unterminated state: " \o state)
            /\ pc' = "halted"
            /\ out' = out
       ELSE /\ out' = Append(out, Emit("count", CountLine(test_number - 1),
                                       "", <<>>, test_number - 1))
            /\ pc' = "done"
            /\ err' = err
    /\ UNCHANGED <<args, test_spec, created_databases, flag_order, db_re>>
    /\ UNCHANGED Locals

Next ==
    \/ create_test_cases
    \/ process_test_begin
    \/ SkipLine
    \/ StateInitial
    \/ StateSetup
    \/ StateSql
    \/ StateTableColumns
    \/ StateResult
    \/ EndOfScript

Spec == Init /\ [][Next]_vars

(***************************************************************************)
(* Functions called on their own                                           *)
(***************************************************************************)
\* no script is run: the variables of the run keep their first values
NoRun ==
    /\ args = [database |-> "sqlite", existing_database |-> FALSE,
               results |-> FALSE, compare |-> FALSE]
    /\ test_spec = <<>>
    /\ pc = "call"
    /\ state = "initial"
    /\ test_number = 1
    /\ created_databases = <<>>
    /\ table_created = FALSE
    /\ column_names = <<>>
    /\ flag_order = None
    /\ db_re = make_db_re(<<>>)
    /\ line_number = 0
    /\ table_name = Unbound
    /\ prev_state = Unbound
    /\ test_statement_type = Unbound
    /\ types = <<>>
    /\ out = <<>>
    /\ err = NoError
    /\ declared = <<>>
    /\ declaration = [open |-> FALSE, rows |-> <<>>]

\* the variables of the run
RunVars == <<args, test_spec, pc, state, test_number, created_databases,
             table_created, column_names, flag_order, db_re, line_number,
             table_name, prev_state, test_statement_type, types, out, err,
             declared, declaration>>

(***************************************************************************)
(* The verdict statement, evaluated by a database                          *)
(***************************************************************************)
\* the most copies of one row in a table
MaxCopies == 2

\* the rows a table can hold
RowPool == {"r1", "r2"}

\* a table is a bag of rows: the number of copies of each row
Tables == [RowPool -> 0..MaxCopies]

RECURSIVE CopiesIn(_, _)
\* the number of rows of table t that are among rows
CopiesIn(t, rows) ==
    IF rows = {} THEN 0
    ELSE LET r == CHOOSE x \in rows : TRUE
         IN  t[r] + CopiesIn(t, rows \ {r})

\* SELECT COUNT(*) FROM t: every row counts
CountStar(t) == CopiesIn(t, RowPool)

\* SELECT COUNT(*) FROM (SELECT * FROM e UNION SELECT * FROM a): UNION
\* removes duplicate rows
CountUnion(e, a) == Cardinality({r \in RowPool : e[r] > 0 \/ a[r] > 0})

\* the CASE of the statement verify_content prints, with test_expected e
\* and the table under test a
VerdictOf(e, a) ==
    IF CountUnion(e, a) = CountStar(e) /\ CountUnion(e, a) = CountStar(a)
    THEN "ok" ELSE "not ok"

InitVerdict ==
    /\ NoRun
    /\ call \in {[fn |-> "verify_content", expected |-> e, actual |-> a] :
                    e \in Tables, a \in Tables}
    /\ ret = None

\* the database runs the verdict statement
RunVerdict ==
    /\ call.fn = "verify_content"
    /\ ret = None
    /\ ret' = Str(VerdictOf(call.expected, call.actual))
    /\ UNCHANGED call
    /\ UNCHANGED RunVars

SpecVerdict == InitVerdict /\ [][RunVerdict]_vars

\* the distinct rows of a table
DistinctRows(t) == {r \in RowPool : t[r] > 0}

\* C1: the verdict statement yields ok exactly when test_expected and the
\* table under test hold the same set of distinct rows, and not ok otherwise
C1_VerdictIsSetEquality ==
    ret # None =>
        /\ ret.v \in {"ok", "not ok"}
        /\ (ret.v = "ok") <=>
               (DistinctRows(call.expected) = DistinctRows(call.actual))

(***************************************************************************)
(* The substitution of databases, on one line                              *)
(***************************************************************************)
\* the longest line that is rewritten
MaxLineLen == 5

\* the characters of the lines
LineAlphabet == {"a", "b", "A", ".", " "}

RECURSIVE LinesUpTo(_)
\* the lines of at most n characters
LinesUpTo(n) ==
    IF n = 0 THEN {""}
    ELSE LinesUpTo(n - 1)
         \cup {l \o c : l \in {x \in LinesUpTo(n - 1) : Len(x) = n - 1},
                        c \in LineAlphabet}

\* the lists create_databases can leave of the databases a and ab
DatabaseLists ==
    {<<>>, <<"test_a">>, <<"test_ab">>, <<"test_a", "test_ab">>,
     <<"test_ab", "test_a">>}

InitRewrite ==
    /\ NoRun
    /\ call \in {[fn |-> "db_re.sub", dbs |-> d, line |-> l] :
                    d \in DatabaseLists, l \in LinesUpTo(MaxLineLen)}
    /\ ret = None

\* make_db_re(created_databases).sub(r'test_\1.', line)
RunRewrite ==
    /\ call.fn = "db_re.sub"
    /\ ret = None
    /\ ret' = Str(db_re_sub(make_db_re(call.dbs), call.line))
    /\ UNCHANGED call
    /\ UNCHANGED RunVars

SpecRewrite == InitRewrite /\ [][RunRewrite]_vars

\* the names of the referenced databases: the created ones less test_
ReferencedNames(dbs) == {SliceFrom(dbs[i], 5) : i \in 1..Len(dbs)}

\* position i of s starts a reference to one of the databases: a whole
\* identifier that is one of the names in some case, followed by a dot
RedirectPoint(s, i, names) ==
    /\ Char(s, i) \in WordChars
    /\ Char(s, i - 1) \notin WordChars
    /\ Char(s, i + WordRun(s, i)) = "."
    /\ \E d \in names : Lower(SubSeq(s, i, i + WordRun(s, i) - 1)) = Lower(d)

RECURSIVE Redirected(_, _, _)
\* s from position i on, with test_ put before every reference
Redirected(s, i, names) ==
    IF i > Len(s) THEN ""
    ELSE (IF RedirectPoint(s, i, names) THEN "test_" ELSE "")
         \o Char(s, i) \o Redirected(s, i + 1, names)

\* C3: rewriting a line puts test_ before every name of a referenced
\* database that starts at a word boundary, whatever its case, leaves a name
\* that is the tail of a longer identifier alone and changes nothing else;
\* with no referenced database the line is unchanged
C3_RewriteRedirectsExactly ==
    ret # None =>
        /\ ret.v = Redirected(call.line, 1, ReferencedNames(call.dbs))
        /\ call.dbs = <<>> => ret.v = call.line

\* C3 witness: a line with a reference and with the same name as the tail
\* of a longer identifier has been rewritten
C3_Witness ==
    /\ ret # None
    /\ call.dbs = <<"test_a">>
    /\ call.line = "A.ba."
    /\ ret.v = "test_A.ba."

(***************************************************************************)
(* Properties of the run of a script                                       *)
(***************************************************************************)
\* the records of the given kind printed so far, in order
Printed(kind) == SelectSeq(out, LAMBDA r : r.kind = kind)

\* what the step prints
NewOut == SubSeq(out', Len(out) + 1, Len(out'))

\* the loop is at a line that is neither blank nor a comment, in state st
Processing(st) == AtLine /\ ~Skipped(CurLine) /\ state = st

\* the line the loop is at opens a RESULT block
AtBeginResult == CurLine \in {"BEGIN RESULT", "BEGIN ORDERED RESULT"}

\* the line the loop is at is a data row of state setup or result
AtDataRow == CurLine # "END" /\ Char(CurLine, Len(CurLine)) # ":"

\* position i of s starts a table reference db.table
ReferenceAt(s, i) ==
    /\ Char(s, i) \in IdentStart
    /\ Char(s, i - 1) \notin WordChars
    /\ Char(s, i + WordRun(s, i)) = "."
    /\ Char(s, i + WordRun(s, i) + 1) \in IdentStart

\* the databases of the table references of s
ReferencedIn(s) ==
    {SubSeq(s, i, i + WordRun(s, i) - 1) :
        i \in {j \in 1..Len(s) : ReferenceAt(s, j)}}

\* C2: every table reference db.table of an embedded SQL line is printed
\* redirected to test_db.table, and the database test_db has been created
\* by the scan that precedes the loop
C2_EveryReferenceRedirected ==
    \A i \in DOMAIN out :
        out[i].kind = "sql" =>
            \A db \in ReferencedIn(out[i].text) :
                /\ StartsWith(db, "test_")
                /\ \E k \in 1..Len(created_databases) :
                       Lower(created_databases[k]) = Lower(db)

\* the script has been read to its end, or an error has ended the run
Ended == pc \in {"done", "halted"}

\* C4: a run ends either with every line read, state initial and the count
\* line printed last, or with an error and no count line; when the lines
\* end in another state the error is the unterminated one and nothing is
\* printed; after the end nothing happens
C4_RunEndsInOneOutcome ==
    [][/\ ~Ended
       /\ (pc = "loop" /\ line_number = Len(test_spec) /\ state # "initial")
              => /\ pc' = "halted"
                 /\ err' = SystemExit("Unterminated state: " \o state)
                 /\ out' = out
       /\ (pc = "loop" /\ line_number = Len(test_spec) /\ state = "initial")
              => pc' = "done"
       /\ pc' = "done"
              => /\ err' = NoError
                 /\ line_number' = Len(test_spec)
                 /\ state' = "initial"
                 /\ Len(out') = Len(out) + 1
                 /\ out'[Len(out')].kind = "count"
                 /\ \A i \in DOMAIN out : out[i].kind # "count"
       /\ pc' = "halted"
              => /\ err' # NoError
                 /\ \A i \in DOMAIN out' : out'[i].kind # "count"
      ]_vars

\* C4 witness: the lines have ended in state setup and the run has ended
\* with the unterminated error
C4_Witness ==
    /\ pc = "halted"
    /\ line_number = Len(test_spec)
    /\ state = "setup"
    /\ err = SystemExit("Unterminated state: setup")

\* the lines printed for the BEGIN RESULT and BEGIN ORDERED RESULT lines of
\* state initial
ResultBlocks ==
    SelectSeq(out, LAMBDA r : /\ r.kind = "comment"
                              /\ r.text \in {"\n-- BEGIN RESULT",
                                             "\n-- BEGIN ORDERED RESULT"})

\* C5: the test counter less one is the number of verdicts printed; the
\* verdicts are numbered 1, 2, ... in the order printed; the count line of
\* a run that succeeds gives the number of RESULT blocks
C5_VerdictsNumbered ==
    /\ LET verdicts == Printed("verdict")
       IN  /\ test_number - 1 = Len(verdicts)
           /\ \A k \in 1..Len(verdicts) :
                  /\ verdicts[k].number = k
                  /\ Contains(verdicts[k].text,
                              "THEN 'ok " \o ToString(k) \o " - ")
                  /\ Contains(verdicts[k].text,
                              "'not ok " \o ToString(k) \o " - ")
    /\ pc = "done" =>
           /\ out[Len(out)].number = Len(ResultBlocks)
           /\ out[Len(out)].text =
                  "SELECT '1.." \o ToString(Len(ResultBlocks)) \o "';"

\* C5 witness: a script with two RESULT blocks has ended with 1..2
C5_Witness ==
    /\ pc = "done"
    /\ Len(ResultBlocks) = 2
    /\ out[Len(out)].text = "SELECT '1..2';"

\* C6: BEGIN RESULT or BEGIN ORDERED RESULT in state initial with no
\* statement kind set since the start or the last RESULT ends the run with
\* the syntax error 'CREATE or SELECT not specified'; the state stays initial
C6_ResultNeedsStatementKind ==
    [][(/\ Processing("initial")
        /\ AtBeginResult
        /\ test_statement_type \notin {Str("create"), Str("select")})
           => /\ pc' = "halted"
              /\ err' = syntax_error(line_number + 1, "initial",
                                     "CREATE or SELECT not specified")
              /\ state' = "initial"
      ]_vars

\* C7: a data row of state setup with no table name declared since BEGIN
\* SETUP ends the run with the syntax error for data with no table name,
\* and nothing is printed for the row
C7_SetupRowNeedsTableName ==
    [][(Processing("setup") /\ AtDataRow /\ declared = <<>>)
           => /\ pc' = "halted"
              /\ err' = syntax_error(line_number + 1, "setup", NoTableName)
              /\ out' = out
      ]_vars

\* C8: END of state result with no table under test declared in the RESULT
\* block ends the run with the syntax error for data with no table name;
\* no verdict is printed and the test counter stays
C8_ResultEndNeedsTableName ==
    [][(Processing("result") /\ CurLine = "END" /\ declared = <<>>)
           => /\ pc' = "halted"
              /\ err' = syntax_error(line_number + 1, "result", NoTableName)
              /\ out' = out
              /\ test_number' = test_number
      ]_vars

\* a BEGIN ORDERED RESULT line has been processed in state initial
OrderedResultProcessed ==
    \E i \in DOMAIN out : /\ out[i].kind = "comment"
                          /\ out[i].text = "\n-- BEGIN ORDERED RESULT"

\* C9: with MySQL or PostgreSQL, once a BEGIN ORDERED RESULT block is
\* processed the run does not succeed, no CREATE TABLE test_expected and no
\* verdict is printed, and the attempt to create test_expected ends the run
\* with the error BEGIN ORDERED RESULT not supported
C9_OrderedRefusedByEngine ==
    (args.database \in {"mysql", "postgresql"} /\ OrderedResultProcessed)
        => /\ pc # "done"
           /\ Printed("verdict") = <<>>
           /\ \A i \in DOMAIN out :
                  ~(out[i].kind = "create_table"
                    /\ out[i].name = "test_expected")
           /\ \A i \in DOMAIN out :
                  (out[i].kind = "drop_table" /\ out[i].name = "test_expected")
                      => /\ i = Len(out)
                         /\ pc = "halted"
                         /\ err = RaisedException(NotSupported(args.database))

\* C9 witness: with MySQL a BEGIN ORDERED RESULT block has been processed
\* and the creation of test_expected has been refused
C9_Witness ==
    /\ args.database = "mysql"
    /\ OrderedResultProcessed
    /\ pc = "halted"
    /\ err = RaisedException("BEGIN ORDERED RESULT not supported for "
                             \o "DatabaseMySQL")

\* the column that ranks the rows of test_expected
RankColumn == "rn INTEGER PRIMARY KEY AUTOINCREMENT"

\* the tokens of the row a table of state result is created from: the
\* row the loop is at, or at END the declared columns
RowTokens ==
    IF CurLine = "END" THEN Len(column_names) ELSE Len(ShlexSplit(CurLine))

\* C10: in ordered mode with SQLite, CREATE TABLE test_expected has the
\* rank column and then the declared columns, INSERT INTO test_expected has
\* NULL and then the values of the row, so that a row with a value for every
\* column has as many values as the table has columns; the tables of SETUP
\* get neither the rank column nor the NULL
C10_RankColumnOnlyOnExpected ==
    [][(pc = "loop" /\ flag_order = -1 /\ args.database = "sqlite")
           => \A i \in DOMAIN NewOut :
                  /\ (NewOut[i].kind = "create_table" /\ state = "result")
                         => /\ NewOut[i].name = "test_expected"
                            /\ NewOut[i].items[1] = RankColumn
                            /\ \A j \in 2..Len(NewOut[i].items) :
                                   StartsWith(NewOut[i].items[j],
                                              column_names[j - 1] \o " ")
                            /\ RowTokens = Len(column_names)
                                   => Len(NewOut[i].items)
                                          = 1 + Len(column_names)
                  /\ (NewOut[i].kind = "insert" /\ state = "result")
                         => /\ NewOut[i].name = "test_expected"
                            /\ NewOut[i].items[1] = "NULL"
                            /\ StartsWith(NewOut[i].text,
                                          "INSERT INTO test_expected VALUES ("
                                          \o "NULL,")
                            /\ (/\ RowTokens = Len(column_names)
                                /\ Len(types') = Len(column_names))
                                   => Len(NewOut[i].items)
                                          = 1 + Len(column_names)
                  /\ (NewOut[i].kind = "create_table" /\ state = "setup")
                         => /\ RankColumn \notin
                                   {NewOut[i].items[j] :
                                       j \in DOMAIN NewOut[i].items}
                            /\ ~Contains(NewOut[i].text, RankColumn)
                  /\ (NewOut[i].kind = "insert" /\ state = "setup")
                         => /\ Len(NewOut[i].items)
                                   <= Len(ShlexSplit(CurLine))
                            /\ ~Contains(NewOut[i].text, "(NULL,")
      ]_vars

(***************************************************************************)
(* Scripts of tables and of ordered results                                *)
(***************************************************************************)
\* the most fragments a script of tables is made of
MaxTableFragments == 2

\* the pieces the scripts of tables are made of
TableFragments ==
    << <<"BEGIN SETUP", "default.t:", "a b", "1 x", "y 3", "NULL true", "END">>,
       <<"BEGIN SETUP", "db.t:", "a", "true", "Null", "END">>,
       <<"BEGIN SETUP", "t:", "BEGIN ORDERED RESULT", "1 2 3", "END">>,
       <<"BEGIN SELECT", "SELECT a FROM default.t;", "END">>,
       <<"BEGIN RESULT", "a", "1", "2", "END">>,
       <<"BEGIN ORDERED RESULT", "a", "1", "END">>,
       <<"BEGIN CREATE", "CREATE TABLE r AS", "SELECT 1 AS a;", "END",
         "BEGIN RESULT", "r:", "a", "1", "END">>,
       <<"", "# comment">>,
       <<"  BEGIN ORDERED RESULT">> >>

RECURSIVE FlattenOf(_, _, _)
\* the lines of the fragments of pool picked by the indices ix, each ended
\* by \n
FlattenOf(pool, ix, k) ==
    IF k > Len(ix) THEN <<>>
    ELSE [i \in 1..Len(pool[ix[k]]) |-> pool[ix[k]][i] \o "\n"]
         \o FlattenOf(pool, ix, k + 1)

\* the scripts of at most MaxTableFragments fragments
TableScripts ==
    {FlattenOf(TableFragments, ix, 1) :
        ix \in UNION {[1..k -> 1..Len(TableFragments)] :
                         k \in 0..MaxTableFragments}}

\* the run of a script of tables, as it starts
InitTables ==
    /\ args \in ArgsPool
    /\ test_spec \in TableScripts
    /\ pc = "create_test_cases"
    /\ state = "initial"
    /\ test_number = 1
    /\ created_databases = <<>>
    /\ table_created = FALSE
    /\ column_names = <<>>
    /\ flag_order = None
    /\ db_re = make_db_re(<<>>)
    /\ line_number = 0
    /\ table_name = Unbound
    /\ prev_state = Unbound
    /\ test_statement_type = Unbound
    /\ types = <<>>
    /\ out = <<>>
    /\ err = NoError
    /\ declared = <<>>
    /\ declaration = [open |-> FALSE, rows |-> <<>>]
    /\ call = None
    /\ ret = None

SpecTables == InitTables /\ [][Next]_vars

\* some line of the script is BEGIN ORDERED RESULT once the blanks around it
\* are removed
OrderedLineInScript ==
    \E i \in 1..Len(test_spec) :
        Strip(test_spec[i]) = "BEGIN ORDERED RESULT"

\* the text state sql prints has the rank projection
HasRankProjection(text) == Contains(text, " ROW_NUMBER() OVER(")

\* the step creates test_expected for a RESULT block, or is refused to
TriesExpected ==
    /\ Processing("result")
    /\ \E i \in DOMAIN NewOut : /\ NewOut[i].kind = "drop_table"
                                /\ NewOut[i].name = "test_expected"

\* the step creates test_expected as ordered mode has it: with the rank
\* column on SQLite, refused on the other engines
ExpectedAsOrdered ==
    IF args.database = "sqlite"
    THEN \E i \in DOMAIN NewOut : /\ NewOut[i].kind = "create_table"
                                  /\ NewOut[i].items # <<>>
                                  /\ NewOut[i].items[1] = RankColumn
    ELSE err' = RaisedException(NotSupported(args.database))

\* C11 as claimed: ordered mode never changes during the loop, it governs
\* every line of state sql and every creation of test_expected, and in a run
\* that succeeds it is active exactly when a RESULT block has been opened
\* with BEGIN ORDERED RESULT
C11_OrderedIffOrderedBlock ==
    [][/\ pc \in {"loop", "done", "halted"} => flag_order' = flag_order
       /\ (Processing("sql") /\ CurLine # "END")
              => (HasRankProjection(out'[Len(out')].text)
                      <=> flag_order = -1)
       /\ TriesExpected => (ExpectedAsOrdered <=> flag_order = -1)
       /\ pc' = "done"
              => ((flag_order' = -1) <=> OrderedResultProcessed')
      ]_vars

\* C11 amended: ordered mode is set by the scan before the loop and never
\* changes; it is active exactly when some line of the script is BEGIN
\* ORDERED RESULT once stripped, whether or not that line opens a RESULT
\* block; when active it governs every line of state sql and every creation
\* of test_expected of the script
C11_OrderedIffOrderedLine ==
    [][/\ pc = "process_test"
              => /\ OrderedLineInScript => flag_order' = -1
                 /\ ~OrderedLineInScript => flag_order' = 1
       /\ pc \in {"loop", "done", "halted"} => flag_order' = flag_order
       /\ (Processing("sql") /\ CurLine # "END")
              => (HasRankProjection(out'[Len(out')].text)
                      <=> OrderedLineInScript)
       /\ TriesExpected => (ExpectedAsOrdered <=> OrderedLineInScript)
      ]_vars

\* C11 witness: a script whose ordered RESULT block comes after a SELECT
\* block has succeeded, and the line of the SELECT block has the rank
\* projection
C11_Witness ==
    /\ pc = "done"
    /\ flag_order = -1
    /\ OrderedResultProcessed
    /\ \E i \in DOMAIN out : /\ out[i].kind = "sql"
                             /\ HasRankProjection(out[i].text)

\* s ends with t
EndsWith(s, t) ==
    /\ Len(t) <= Len(s)
    /\ SubSeq(s, Len(s) - Len(t) + 1, Len(s)) = t

\* the line is a SELECT: it starts with the keyword
IsSelect(line) ==
    /\ StartsWith(line, "SELECT")
    /\ Char(line, 7) \notin WordChars

\* C12: in ordered mode state sql prints a line that is a SELECT with the
\* rank projection ROW_NUMBER() OVER(<order>) AS RN, put right after the
\* SELECT keyword, and prints every other line as it is once its databases
\* are substituted; with ordered mode off it prints every line so
C12_RankProjectionOnSelectOnly ==
    [][(Processing("sql") /\ CurLine # "END")
           => LET line == db_re_sub(db_re, CurLine)
                  printed == out'[Len(out')].text
              IN  /\ Len(out') = Len(out) + 1
                  /\ IF flag_order = -1 /\ IsSelect(line)
                     THEN /\ StartsWith(printed, "SELECT ROW_NUMBER() OVER(")
                          /\ EndsWith(printed,
                                      ") AS RN," \o SliceFrom(line, 6))
                     ELSE printed = line
      ]_vars

(***************************************************************************)
(* The rank projection, on one statement                                   *)
(***************************************************************************)
\* the most terms of an ORDER BY
MaxTerms == 2

\* the columns a term can name, and a position given in place of a column
TermColumns == {"a", "b_1"}

TermPositions == {"2"}

\* what a term can say of its direction
TermDirections == {"", " ASC", " DESC", " desc"}

\* the lists of at most MaxTerms terms over the given columns
TermLists(columns) ==
    UNION {[1..k -> [column : columns, direction : TermDirections]] :
              k \in 1..MaxTerms}

RECURSIVE TermsOf(_, _)
\* the terms from the k-th on as the statement has them, with ", " between
TermsOf(terms, k) ==
    IF k > Len(terms) THEN ""
    ELSE terms[k].column \o terms[k].direction
         \o (IF k < Len(terms) THEN ", " ELSE "")
         \o TermsOf(terms, k + 1)

\* the statements: with no ORDER BY, and with the keywords in upper or in
\* lower case before a list of columns or of positions
OrderStatements ==
    {[keywords |-> "", terms |-> <<>>, line |-> "SELECT a FROM t;"]}
    \cup {[keywords |-> kw, terms |-> t,
           line |-> "SELECT a FROM t " \o kw \o " " \o TermsOf(t, 1) \o ";"] :
             kw \in {"ORDER BY", "order by"},
             t \in TermLists(TermColumns) \cup TermLists(TermPositions)}

InitOrderBy ==
    /\ NoRun
    /\ call \in {[fn |-> "sql", statement |-> s] : s \in OrderStatements}
    /\ ret = None

\* state sql in ordered mode prints the line of the statement
RunOrderBy ==
    /\ call.fn = "sql"
    /\ ret = None
    /\ ret' = Str(SqlLine(call.statement.line, -1))
    /\ UNCHANGED call
    /\ UNCHANGED RunVars

SpecOrderBy == InitOrderBy /\ [][RunOrderBy]_vars

\* the direction of a term, ASC when it gives none
DirectionOf(term) == IF term.direction \in {" DESC", " desc"}
                     THEN "DESC" ELSE "ASC"

RECURSIVE OrderOf(_, _)
\* the terms from the k-th on with their columns and directions
OrderOf(terms, k) ==
    IF k > Len(terms) THEN ""
    ELSE " " \o terms[k].column \o " " \o DirectionOf(terms[k])
         \o (IF k < Len(terms) THEN "," ELSE "")
         \o OrderOf(terms, k + 1)

\* the order a statement asks for, ORDER BY 1 when it names no column after
\* the keywords ORDER BY
OrderClause(s) ==
    IF /\ s.keywords = "ORDER BY"
       /\ \A k \in DOMAIN s.terms : s.terms[k].column \in TermColumns
    THEN "ORDER BY" \o OrderOf(s.terms, 1)
    ELSE "ORDER BY 1"

\* C13: the order put in ROW_NUMBER() OVER(...) is the terms of the ORDER BY
\* of the statement with their columns and directions, ASC by default, and
\* is ORDER BY 1 when the statement has no ORDER BY, has positions in place
\* of columns, or has the keywords in lower case
C13_OrderClauseOrFallback ==
    ret # None =>
        ret.v = "SELECT ROW_NUMBER() OVER(" \o OrderClause(call.statement)
                \o ") AS RN," \o SliceFrom(call.statement.line, 6)

(***************************************************************************)
(* The types of values, on one token                                       *)
(***************************************************************************)
\* the longest token made of the characters of TokenAlphabet
MaxTokenLen == 4

\* the characters numbers, dates and times are made of
TokenAlphabet == {"1", ".", "e", "-", ":"}

RECURSIVE TokensUpTo(_)
\* the tokens of at least one and at most n characters
TokensUpTo(n) ==
    IF n = 0 THEN {}
    ELSE TokensUpTo(n - 1)
         \cup {t \o c : t \in {""} \cup {x \in TokensUpTo(n - 1) :
                                            Len(x) = n - 1},
                        c \in TokenAlphabet}

\* tokens of the longer shapes, and tokens that only start as a number does
ShapedTokens ==
    {"2020-01-02", "2020-01-02x", "1:02:03", "12:02:03x",
     "2020-01-02 03:04:05", "true", "FALSE", "True", "truex", "1.2.3",
     "1.5e3", "1e-5", "abc"}

InitSqlType ==
    /\ NoRun
    /\ call \in {[fn |-> "SqlType", value |-> v] :
                    v \in TokensUpTo(MaxTokenLen) \cup ShapedTokens}
    /\ ret = None

\* SqlType(dbengine, value) and its get_value(value)
RunSqlType ==
    /\ call.fn = "SqlType"
    /\ ret = None
    /\ ret' = [tag |-> "SqlType",
               name |-> SqlType(call.value).name,
               value |-> get_value("sqlite", SqlType(call.value), call.value)]
    /\ UNCHANGED call
    /\ UNCHANGED RunVars

SpecSqlType == InitSqlType /\ [][RunSqlType]_vars

\* an exponent, E or e with digits and at most one -, from position p to
\* the end of v
ExponentToEnd(v, p) ==
    /\ Char(v, p) \in {"E", "e"}
    /\ DigitsToEnd(v, IF Char(v, p + 1) = "-" THEN p + 2 ELSE p + 1)

\* the whole of v is a real number: digits with a point and possibly an
\* exponent, or digits with an exponent
WholeReal(v) ==
    LET n == DigitRun(v, 1)
        m == DigitRun(v, n + 2)
    IN  \/ /\ Char(v, n + 1) = "."
           /\ n + m >= 1
           /\ (n + 1 + m = Len(v) \/ ExponentToEnd(v, n + 2 + m))
        \/ n >= 1 /\ ExponentToEnd(v, n + 1)

\* the whole of v is YYYY-MM-DD HH:MM:SS
WholeTimestamp(v) ==
    /\ DatePrefix(v)
    /\ Char(v, 11) = " "
    /\ TimeFrom(v, 12)

\* the type of the classifier in which the first shape that describes the
\* whole token wins
WholeTokenType(v) ==
    IF DigitsToEnd(v, 1) THEN "INTEGER"
    ELSE IF WholeReal(v) THEN "REAL"
    ELSE IF DatePrefix(v) /\ Len(v) = 10 THEN "DATE"
    ELSE IF TimeFrom(v, 1) THEN "TIME"
    ELSE IF WholeTimestamp(v) THEN "TIMESTAMP"
    ELSE IF Lower(v) \in {"true", "false"} THEN "BOOLEAN"
    ELSE "VARCHAR(255)"

\* C14: SqlType gives every token the type of the classifier in which the
\* first shape that describes the whole token wins; INTEGER and REAL values
\* are printed without quotes, DATE, TIME, TIMESTAMP and VARCHAR(255) values
\* between single quotes
C14_TypeOfWholeToken ==
    ret # None =>
        /\ ret.name = WholeTokenType(call.value)
        /\ ret.name \in {"INTEGER", "REAL"} => ret.value = call.value
        /\ ret.name \in {"DATE", "TIME", "TIMESTAMP", "VARCHAR(255)"}
               => ret.value = "'" \o call.value \o "'"

(***************************************************************************)
(* The values printed for a column of a given type                         *)
(***************************************************************************)
\* the seven types SqlType.__init__ can make, each with its sql_repr
SqlTypes ==
    {[name |-> "INTEGER", sql_repr |-> "unquoted"],
     [name |-> "REAL", sql_repr |-> "unquoted"],
     [name |-> "DATE", sql_repr |-> "quoted"],
     [name |-> "TIME", sql_repr |-> "quoted"],
     [name |-> "TIMESTAMP", sql_repr |-> "quoted"],
     [name |-> "BOOLEAN", sql_repr |-> "boolean"],
     [name |-> "VARCHAR(255)", sql_repr |-> "quoted"]}

RECURSIVE CaseVariants(_)
\* the word w, given in lower case, with each letter in either case
CaseVariants(w) ==
    IF w = "" THEN {""}
    ELSE {c \o r : c \in {x \in LowerLetters \cup UpperLetters :
                             LowerChar(x) = Head(w)},
                   r \in CaseVariants(Tail(w))}

InitRender ==
    /\ NoRun
    /\ call \in UNION {{[fn |-> "get_value", type |-> t, database |-> d,
                         word |-> w, value |-> v] :
                           t \in SqlTypes, d \in Engines,
                           v \in CaseVariants(w)} :
                         w \in {"null", "true", "false"}}
    /\ ret = None

\* SqlType.get_value(val) of a column of the type, with the engine
RunRender ==
    /\ call.fn = "get_value"
    /\ ret = None
    /\ ret' = Str(get_value(call.database, call.type, call.value))
    /\ UNCHANGED call
    /\ UNCHANGED RunVars

SpecRender == InitRender /\ [][RunRender]_vars

\* C15: NULL in any case is printed as the keyword NULL in a column of any
\* of the seven types with any of the three engines; in a BOOLEAN column
\* true and false in any case are printed as TRUE and FALSE with MySQL and
\* PostgreSQL, as 1 and 0 with SQLite
C15_NullAndBooleanRendering ==
    ret # None =>
        /\ call.word = "null" => ret.v = "NULL"
        /\ (call.type.name = "BOOLEAN" /\ call.word = "true")
               => ret.v = IF call.database = "sqlite" THEN "1" ELSE "TRUE"
        /\ (call.type.name = "BOOLEAN" /\ call.word = "false")
               => ret.v = IF call.database = "sqlite" THEN "0" ELSE "FALSE"

\* C15 witness: Null has been printed for a BOOLEAN column with SQLite
C15_Witness ==
    /\ ret = Str("NULL")
    /\ call.fn = "get_value"
    /\ call.type.name = "BOOLEAN"
    /\ call.database = "sqlite"
    /\ call.value = "Null"

(***************************************************************************)
(* The rows of a table                                                     *)
(***************************************************************************)
\* what the step prints, less the comments
NewStatements == SelectSeq(NewOut, LAMBDA r : r.kind # "comment")

\* the step reads a data row of a table whose column line has been read
AtRowOfDeclaration ==
    /\ Processing("setup") \/ Processing("result")
    /\ AtDataRow
    /\ declaration.open

\* the first data row of the table the row at the loop belongs to
FirstRow ==
    IF declaration.rows = <<>> THEN CurLine ELSE declaration.rows[1]

\* the items of a printed statement that stand for the declared columns:
\* all but a leading rank column or its NULL
DeclaredItems(r, n) ==
    IF Len(r.items) = n + 1 THEN Tail(r.items) ELSE r.items

\* the columns CREATE TABLE gives a table with the given column names whose
\* first row has the given tokens
TypedColumns(names, tokens) ==
    [i \in 1..Min(Len(names), Len(tokens)) |->
        names[i] \o " " \o SqlType(tokens[i]).name]

\* the values INSERT gives for the tokens of a row of a table whose first
\* row has the tokens first
TypedValues(first, tokens) ==
    [i \in 1..Min(Len(first), Len(tokens)) |->
        get_value(args.database, SqlType(first[i]), tokens[i])]

Created(o, name) ==
    SelectSeq(o, LAMBDA r : r.kind = "create_table" /\ r.name = name)

\* C17: with ordered mode off, CREATE TABLE has as many columns as the
\* column line has names, and every INSERT has as many values as the table
\* has columns, for every data row of a table with a column line, the short
\* and the long rows included
C17_ValuesMatchColumns ==
    [][(AtRowOfDeclaration /\ flag_order = 1)
           => \A i \in DOMAIN NewOut :
                  /\ NewOut[i].kind = "create_table"
                         => Len(NewOut[i].items) = Len(column_names)
                  /\ NewOut[i].kind = "insert"
                         => /\ Len(NewOut[i].items) = Len(column_names)
                            /\ Created(out', NewOut[i].name) # <<>>
                            /\ Len(NewOut[i].items)
                                   = Len(Created(out', NewOut[i].name)[
                                             Len(Created(out',
                                                         NewOut[i].name))
                                         ].items)
      ]_vars

\* C18: in the output of one script every database name has at most one
\* create-database statement, test_default included
C18_DatabaseCreatedOnce ==
    LET created == Printed("create_db")
    IN  \A i, j \in DOMAIN created :
            created[i].name = created[j].name => i = j

\* the line opens a SELECT test case, inline or from a file
OpensSelect(line) ==
    IF line = "BEGIN SELECT" THEN TRUE
    ELSE RE_INCLUDE("SELECT", line).matched

\* C19: for a line that opens a SELECT test case, BEGIN SELECT and INCLUDE
\* SELECT alike, the view prologue printed is the one the engine's
\* create_view gives for test_select_result
C19_ViewPrologueOfEngine ==
    [][(Processing("initial") /\ OpensSelect(CurLine))
           => \E i \in DOMAIN NewOut :
                  NewOut[i] = create_view(args.database,
                                          "test_select_result")[1]
      ]_vars

\* the states process_test names
ProcessStates == {"initial", "setup", "sql", "table_columns", "result"}

\* the message gives a line number of the script, a reason and a state
ReportsLineStateReason(message) ==
    \E n \in 0..Len(test_spec), st \in ProcessStates :
        LET head == "Syntax error on line " \o ToString(n) \o ": "
            tail == " (state: " \o st \o ")"
        IN  /\ StartsWith(message, head)
            /\ EndsWith(message, tail)
            /\ Len(message) > Len(head) + Len(tail)

\* C20: a run of a supported engine that process_test ends with an error it
\* reports (sys.exit or a raised Exception) gives the line number, the state
\* and the reason
C20_FatalErrorsReported ==
    (/\ pc = "halted"
     /\ args.database \in Engines
     /\ err.kind \in {"SystemExit", "Exception"})
        => ReportsLineStateReason(err.message)

\* C21 as stated: a script that completes with two RESULT blocks has
\* printed two verdicts that name two different tables under test
C21_TwoVerdictsDistinctTables ==
    (pc = "done" /\ Len(ResultBlocks) = 2)
        => LET verdicts == Printed("verdict")
           IN  /\ Len(verdicts) = 2
               /\ verdicts[1].name # verdicts[2].name

\* C21: a script that completes with two RESULT blocks has printed the
\* count line 1..2 last and two verdicts, numbered 1 and 2, that are two
\* different statements, each the statement verify_content makes of its
\* number and of the table it names; the two tables need not differ
C21_TwoVerdictsIndependent ==
    (pc = "done" /\ Len(ResultBlocks) = 2)
        => LET verdicts == Printed("verdict")
           IN  /\ Len(verdicts) = 2
               /\ \A k \in 1..2 :
                      verdicts[k].text
                          = VerdictText(k, test_name, verdicts[k].name)
               /\ verdicts[1].text # verdicts[2].text
               /\ out[Len(out)].text = "SELECT '1..2';"

\* C21 witness: a script has completed with two verdicts that both name
\* test_select_result
C21_Witness ==
    /\ pc = "done"
    /\ Len(ResultBlocks) = 2
    /\ Len(Printed("verdict")) = 2
    /\ Printed("verdict")[1].name = "test_select_result"
    /\ Printed("verdict")[2].name = "test_select_result"

(***************************************************************************)
(* Scripts of whole test cases                                             *)
(***************************************************************************)
\* the most test cases and blocks a script of test cases is made of
MaxCaseFragments == 2

\* whole test cases and SETUP blocks: CREATE and SELECT cases, inline and
\* included, RESULT blocks with and without a name line and with and
\* without data rows, blank lines and comments inside the blocks, and a
\* column line that reads END
CaseFragments ==
    << <<"BEGIN CREATE", "CREATE TABLE r AS SELECT 1 AS a;", "END",
         "BEGIN RESULT", "r:", "a", "1", "END">>,
       <<"INCLUDE CREATE c.sql", "BEGIN RESULT", "a", "1", "END">>,
       <<"INCLUDE CREATE c.sql", "BEGIN RESULT", "END">>,
       <<"BEGIN SELECT", "SELECT a FROM db.t;", "END",
         "BEGIN RESULT", "a", "END">>,
       <<"INCLUDE SELECT q.sql", "BEGIN ORDERED RESULT", "a", "1", "END">>,
       <<"BEGIN SETUP", "# c", "db.t:", "", "a b", "# c", "1 x", "", "END">>,
       <<"# c", "BEGIN CREATE", "", "CREATE TABLE s AS SELECT a FROM db.t;",
         "# c", "END", "", "BEGIN RESULT", "db.s:", "# c", "a", "", "1",
         "END">>,
       <<"BEGIN SETUP", "t:", "END", "1", "END">> >>

\* the scripts of at most MaxCaseFragments test cases and blocks
CaseScripts ==
    {FlattenOf(CaseFragments, ix, 1) :
        ix \in UNION {[1..k -> 1..Len(CaseFragments)] :
                         k \in 0..MaxCaseFragments}}

\* the run of a script of test cases, as it starts
InitCases ==
    /\ args \in ArgsPool
    /\ test_spec \in CaseScripts
    /\ pc = "create_test_cases"
    /\ state = "initial"
    /\ test_number = 1
    /\ created_databases = <<>>
    /\ table_created = FALSE
    /\ column_names = <<>>
    /\ flag_order = None
    /\ db_re = make_db_re(<<>>)
    /\ line_number = 0
    /\ table_name = Unbound
    /\ prev_state = Unbound
    /\ test_statement_type = Unbound
    /\ types = <<>>
    /\ out = <<>>
    /\ err = NoError
    /\ declared = <<>>
    /\ declaration = [open |-> FALSE, rows |-> <<>>]
    /\ call = None
    /\ ret = None

SpecCases == InitCases /\ [][Next]_vars

\* the print of a BEGIN RESULT or BEGIN ORDERED RESULT line of state initial
IsBeginResult(r) ==
    /\ r.kind = "comment"
    /\ r.text \in {"\n-- BEGIN RESULT", "\n-- BEGIN ORDERED RESULT"}

\* what has been printed in o since the last RESULT block was opened
SinceBeginResult(o) ==
    LET opened == {i \in DOMAIN o : IsBeginResult(o[i])}
        last == CHOOSE i \in opened : \A j \in opened : j <= i
    IN  IF opened = {} THEN <<>> ELSE SubSeq(o, last + 1, Len(o))

\* the places of b where a statement of the given kind for test_expected is
ExpectedAt(b, kind) ==
    {i \in DOMAIN b : b[i].kind = kind /\ b[i].name = "test_expected"}

\* the column definitions are those of the names, in their order, after
\* the rank column if there is one
DefinesColumns(items, names) ==
    LET defs == IF items # <<>> /\ StartsWith(items[1], "rn ")
                THEN Tail(items) ELSE items
    IN  /\ Len(defs) = Len(names)
        /\ \A i \in DOMAIN defs : StartsWith(defs[i], names[i] \o " ")

\* C22: when END of a RESULT block prints the verdict, test_expected has
\* been dropped and created exactly once since the block was opened, with
\* the columns the block declares, before the verdict and before every
\* INSERT INTO test_expected of the block
C22_ExpectedCreatedOncePerBlock ==
    [][(/\ Processing("result")
        /\ CurLine = "END"
        /\ \E i \in DOMAIN NewOut : NewOut[i].kind = "verdict")
           => LET b == SinceBeginResult(out')
                  creates == ExpectedAt(b, "create_table")
                  drops == ExpectedAt(b, "drop_table")
                  inserts == ExpectedAt(b, "insert")
                  verdicts == {i \in DOMAIN b : b[i].kind = "verdict"}
              IN  /\ Cardinality(creates) = 1
                  /\ Cardinality(drops) = 1
                  /\ \A c \in creates :
                         /\ DefinesColumns(b[c].items, column_names)
                         /\ \A d \in drops : d < c
                         /\ \A i \in inserts : c < i
                         /\ \A v \in verdicts : c < v
      ]_vars

\* the line the loop is at is blank or starts with #
AtBlankOrComment ==
    /\ AtLine
    /\ IF CurLine = "" THEN TRUE ELSE StartsWith(CurLine, "#")

\* C23: in every state a blank line and a line that starts with # print
\* nothing and leave the state, the return state, the table name, the
\* column names, the column types, the table-created flag, the statement
\* kind and the test counter as they are; the loop goes on to the next line
C23_BlankAndCommentSkipped ==
    [][AtBlankOrComment
           => /\ out' = out
              /\ state' = state
              /\ prev_state' = prev_state
              /\ table_name' = table_name
              /\ column_names' = column_names
              /\ types' = types
              /\ table_created' = table_created
              /\ test_statement_type' = test_statement_type
              /\ test_number' = test_number
              /\ line_number' = line_number + 1
              /\ pc' = "loop"
              /\ err' = NoError
      ]_vars

\* C23 witness: a comment has been passed in state table_columns, between
\* the name line and the column line, and the state is still table_columns
C23_Witness ==
    /\ pc = "loop"
    /\ line_number >= 2
    /\ Rstrip(test_spec[line_number]) = "# c"
    /\ Rstrip(test_spec[line_number - 1]) = "db.s:"
    /\ state = "table_columns"
    /\ column_names = <<>>

\* C24: the line read in state table_columns, whatever it holds, becomes the
\* list of column names, resets the table-created flag, prints nothing and
\* returns to the recorded state; table_columns is entered with setup
\* recorded from a name line of setup, and with result recorded from a name
\* line of result or from the BEGIN RESULT of a SELECT, and from nowhere else
C24_TableColumnsOneLine ==
    [][/\ Processing("table_columns")
           => /\ prev_state \in {Str("setup"), Str("result")}
              /\ state' = prev_state.v
              /\ column_names' = Split(CurLine)
              /\ table_created' = FALSE
              /\ out' = out
              /\ err' = NoError
              /\ pc' = "loop"
       /\ (state # "table_columns" /\ state' = "table_columns")
           => /\ state \in {"setup", "result"}
                  => /\ Char(CurLine, Len(CurLine)) = ":"
                     /\ prev_state' = Str(state)
              /\ state \notin {"setup", "result"}
                  => /\ state = "initial"
                     /\ AtBeginResult
                     /\ test_statement_type = Str("select")
                     /\ prev_state' = Str("result")
      ]_vars

\* C24 witness: the column line of a table of setup read END, and the loop
\* is back in state setup with END as the one column name
C24_Witness ==
    /\ pc = "loop"
    /\ line_number >= 2
    /\ Rstrip(test_spec[line_number]) = "END"
    /\ Rstrip(test_spec[line_number - 1]) = "t:"
    /\ state = "setup"
    /\ column_names = <<"END">>
    /\ ~table_created

\* C25: in ordered mode the SELECT lines of a file brought in by INCLUDE
\* SELECT are printed with the rank projection, as the SELECT lines of a
\* BEGIN SELECT block are
C25_IncludedSelectRanked ==
    [][(/\ Processing("initial")
        /\ RE_INCLUDE("SELECT", CurLine).matched
        /\ flag_order = -1)
           => \A i \in DOMAIN NewOut :
                  (NewOut[i].kind = "included" /\ IsSelect(NewOut[i].text))
                      => HasRankProjection(NewOut[i].text)
      ]_vars

(***************************************************************************)
(* extract_order_by_clauses, on texts with several ORDER BY clauses        *)
(***************************************************************************)
\* the most ORDER BY clauses of a text
MaxClauses == 3

\* the term lists the clauses are drawn from
ClauseTerms ==
    { <<[column |-> "a", direction |-> ""]>>,
      <<[column |-> "a", direction |-> " DESC"]>>,
      <<[column |-> "b_1", direction |-> ""],
        [column |-> "a", direction |-> " desc"]>>,
      <<[column |-> "a", direction |-> " ASC"],
        [column |-> "b_1", direction |-> ""]>> }

RECURSIVE WindowsOf(_, _)
\* a window function for each clause from the k-th up to the one before the
\* last, with ", " between
WindowsOf(clauses, k) ==
    IF k >= Len(clauses) THEN ""
    ELSE "RANK() OVER (ORDER BY " \o TermsOf(clauses[k], 1) \o ")"
         \o (IF k + 1 < Len(clauses) THEN ", " ELSE "")
         \o WindowsOf(clauses, k + 1)

\* the statement whose ORDER BY clauses are the given ones, in their order:
\* all but the last in window functions, the last the order of the statement
ClauseText(clauses) ==
    "SELECT " \o (IF Len(clauses) = 1 THEN "a" ELSE WindowsOf(clauses, 1))
    \o " FROM t ORDER BY " \o TermsOf(clauses[Len(clauses)], 1) \o ";"

InitClauses ==
    /\ NoRun
    /\ call \in {[fn |-> "extract_order_by_clauses", clauses |-> c,
                  sql_text |-> ClauseText(c)] :
                    c \in UNION {[1..k -> ClauseTerms] : k \in 1..MaxClauses}}
    /\ ret = None

\* the call extract_order_by_clauses(sql_text) returns
RunClauses ==
    /\ call.fn = "extract_order_by_clauses"
    /\ ret = None
    /\ ret' = Str(extract_order_by_clauses(call.sql_text))
    /\ UNCHANGED call
    /\ UNCHANGED RunVars

SpecClauses == InitClauses /\ [][RunClauses]_vars

\* C26: for a text with one or more ORDER BY clauses
\* extract_order_by_clauses returns ORDER BY and the terms of the last
\* clause, each as a column and a direction, with commas between and none
\* at the end
C26_LastClauseWithKeyword ==
    ret # None =>
        ret.v = "ORDER BY"
                \o OrderOf(call.clauses[Len(call.clauses)], 1)

\* C27: the table under test a verdict names is one the RESULT block it
\* ends has declared, by a name line or as the test_select_result of a
\* SELECT; it is never a name left by an earlier block
C27_VerdictNamesOwnTable ==
    [][(Processing("result") /\ CurLine = "END")
           => \A i \in DOMAIN NewOut :
                  NewOut[i].kind = "verdict"
                      => InList(NewOut[i].name, declared)
      ]_vars

\* the statements that name the table they create, fill or verify
TableStatements == {"drop_table", "create_table", "insert", "verdict"}

\* the line the loop is at is a header db.t: of state setup or result
AtQualifiedHeader ==
    /\ Processing("setup") \/ Processing("result")
    /\ CurLine # "END"
    /\ Char(CurLine, Len(CurLine)) = ":"
    /\ RE_DB_TABLESPEC(CurLine).matched

\* C28: the table name a header db.t: binds is the text the rewriter of
\* the script makes of the reference db.t, which is test_db.t; the
\* statements printed for the rows of a SETUP table and the verdict of a
\* RESULT block carry the name the block has bound; and a statement for a
\* table test_db.t is printed after the create-database statement of
\* test_db
C28_HeaderNameIsRewrittenReference ==
    [][/\ AtQualifiedHeader
           => LET reference == SliceTo(CurLine, Len(CurLine) - 1)
              IN  /\ table_name' = Str(db_re_sub(db_re, reference))
                  /\ table_name' = Str("test_" \o reference)
                  /\ \E j \in DOMAIN out :
                         /\ out[j].kind = "create_db"
                         /\ out[j].name
                                = "test_" \o RE_DB_TABLESPEC(CurLine).group1
       /\ (Processing("setup") /\ AtDataRow /\ declared # <<>>)
           => \A i \in DOMAIN NewOut :
                  NewOut[i].kind \in TableStatements
                      => NewOut[i].name = declared[Len(declared)]
       /\ (Processing("result") /\ CurLine = "END" /\ declared # <<>>)
           => \A i \in DOMAIN NewOut :
                  NewOut[i].kind = "verdict"
                      => NewOut[i].name = declared[Len(declared)]
       /\ \A i \in DOMAIN NewOut :
              (/\ NewOut[i].kind \in TableStatements
               /\ RE_DB_TABLESPEC(NewOut[i].name).matched)
                  => \E j \in DOMAIN out :
                         /\ out[j].kind = "create_db"
                         /\ out[j].name
                                = RE_DB_TABLESPEC(NewOut[i].name).group1
      ]_vars

\* C28 witness: a row of the SETUP table db.t has been inserted into
\* test_db.t, after the creation of test_db, in a script whose SQL refers
\* to db.t and is printed with test_db.t
C28_Witness ==
    \E i, j, k \in DOMAIN out :
        /\ k < i
        /\ out[k].kind = "create_db" /\ out[k].name = "test_db"
        /\ out[i].kind = "insert" /\ out[i].name = "test_db.t"
        /\ out[j].kind = "sql" /\ Contains(out[j].text, "FROM test_db.t;")

=============================================================================
